---- MODULE Spec2Model ----
(***************************************************************************)
(* Neon Arena: round/phase orchestrator, combat resolution and enemy AI.   *)
(*                                                                         *)
(* The program keeps one mutable object, gameState; the model keeps it as  *)
(* one record-valued variable of the same name.  Handlers (start button,   *)
(* click, key, animation frame, setTimeout callbacks) are the actions.     *)
(* Their bodies are written as operators from a gameState record to the    *)
(* gameState record they leave behind, called in the order of the source.  *)
(*                                                                         *)
(* Units.  Time is in milliseconds (the frame delta of THREE.Clock and     *)
(* Date.now() measure the same wall clock).  Stored timestamps             *)
(* (lastFireTime, lastShot, lastSeenPlayerAt) are kept relative to the     *)
(* current Date.now(): 0 is "now", -150 is "150 ms ago"; they saturate at  *)
(* -Stale, which is older than every interval the code compares against.   *)
(* Player health is in tenths of a point (enemy damage is 5 * 1.1 = 5.5 on *)
(* floor 2); bullet distances are in tenths of a world unit.               *)
(*                                                                         *)
(* Geometry (positions, ray casts) is not state of the model: every frame  *)
(* receives an observation record saying, for each enemy and projectile,   *)
(* what the distance tests and ray casts of that frame returned.           *)
(***************************************************************************)
EXTENDS Integers, Sequences, FiniteSets, TLC

\* gameState: the gameState object, with ev, the outputs of the last handler
\* dom:       display of the start, game-over and black screens
\* timers:    pending setTimeout callbacks with the time left to each
\* elapsed:   frame time accumulated since the running phase timer was set
\* arena:     the environment of the session (see Environments)
VARIABLES gameState, dom, timers, elapsed, arena

vars == <<gameState, dom, timers, elapsed, arena>>

(***************************************************************************)
(* Bounds of the model.                                                    *)
(***************************************************************************)
\* at most this many droids of a round are materialised
MaxEnemies == 2
\* frames a projectile flies before the arena's walls stop it
MaxFlight == 1
\* floors explored
MaxRound == 4
\* timestamps older than this are indistinguishable to the code
Stale == 2000

(***************************************************************************)
(* Program constants.                                                      *)
(***************************************************************************)
ROUND_COUNTDOWN_SECONDS == 3000
INTERMISSION_SECONDS == 8000
COMBAT_ACTIVATION_DELAY == 1000
ROUND_END_SECONDS == 1200
ARENA_GATE_OPEN_SECONDS == 1400
ARENA_SWAP_SECONDS == 1000
HEAL_AMOUNT == 350
FULL_HEALTH == 1000
START_UNLOCKED_WEAPONS == {"rifle"}
ENEMY_DAMAGE == 50
ENEMY_FIRE_RATE == 1000
ENEMY_RANGE == 150
AI_DETECTION_RANGE == 220
REPOSITION_TIMEOUT_MS == 1800
ENGAGE_LOST_MS == 1200
GAME_OVER_DELAY == 2000
BLACK_SCREEN_DELAY == 2000
BASE_ROUNDS_PER_ARENA == 3
DROID_HEALTH == 100
MIN_DROID_HEALTH == 25
PLAYER_BULLET_SPEED == 10
ENEMY_BULLET_SPEED == 8

\* world.js: sizes of the node lists of the generated arena
mapMeta == [enemySpawnNodes |-> 8, pickupNodes |-> 6,
            patrolRoutes |-> 4, routeLength |-> 4]

WeaponTypes == {"rifle", "shotgun", "sniper"}

PickupKinds == {"health", "unlock_shotgun", "unlock_sniper"}

weapons ==
    [rifle   |-> [damage |-> 20, fireRate |-> 150,  range |-> 1000, maxAmmo |-> 30, pellets |-> 0],
     shotgun |-> [damage |-> 10, fireRate |-> 800,  range |-> 300,  maxAmmo |-> 8,  pellets |-> 8],
     sniper  |-> [damage |-> 80, fireRate |-> 1200, range |-> 2000, maxAmmo |-> 5,  pellets |-> 0]]

Phases == {"IDLE", "PREP_COUNTDOWN", "COMBAT", "INTERMISSION", "ROUND_END",
           "ARENA_GATE_OPEN", "ARENA_SWAP"}

AIStates == {"PATROL", "CHASE", "ENGAGE", "REPOSITION"}

Min(a, b) == IF a < b THEN a ELSE b
Max(a, b) == IF a > b THEN a ELSE b

\* Date.now() in the relative time base
currentTime == 0

\* a stored timestamp after d more milliseconds of wall clock
Shift(t, d) == Max(t - d, 0 - Stale)

(***************************************************************************)
(* levels.js                                                               *)
(***************************************************************************)
\* enemyScaling factors are kept in hundredths
getLevelConfig(floor) ==
    LET floorIndex == Max(1, floor) IN
    [floorId        |-> floorIndex,
     roundsPerArena |-> BASE_ROUNDS_PER_ARENA,
     enemyScaling   |-> [health |-> 100 + (floorIndex - 1) * 15,
                         damage |-> 100 + (floorIndex - 1) * 10,
                         speed  |-> 100 + (floorIndex - 1) * 5]]

\* variant: one more enemy for every round and for every floor
getEnemiesForRound_Linear(globalRound, floor) ==
    5 + globalRound + (floor - 1)

getEnemiesForRound(globalRound, floor) ==
    5 + ((globalRound * 3) \div 2) + (((floor - 1) * 4) \div 5)

(***************************************************************************)
(* Observable outputs of the handler that ran last (what it logged and     *)
(* which entry actions and callbacks it ran), and, in sight, what the      *)
(* enemies it evaluated observed.  Reset by every handler.                 *)
(***************************************************************************)
NoEvents ==
    [delta |-> 0, accepted |-> FALSE,
     enterIntermission |-> 0, enterRoundEnd |-> 0, gameOver |-> 0,
     playerHits |-> 0, kills |-> 0, killCallbacks |-> 0,
     enemyShots |-> 0, fault |-> FALSE, thrown |-> FALSE, notice |-> "none", struck |-> <<>>,
     sight |-> <<>>, spawned |-> 0, offered |-> <<>>, collected |-> <<>>]

Began(g) == [g EXCEPT !.ev = NoEvents]

Count(g, f) == [g EXCEPT !.ev[f] = @ + 1]

(***************************************************************************)
(* Small helpers of the orchestrator.                                      *)
(***************************************************************************)
clearBulletArray(bullets) == <<>>

clearPickups(pickups) == <<>>

closeSafeGate(g) == [g EXCEPT !.gate = [isOpen |-> FALSE, solid |-> TRUE]]

openSafeGate(g) == [g EXCEPT !.gate = [isOpen |-> TRUE, solid |-> FALSE]]

\* createEnvironment builds the same arena whatever the floor: g.world
loadArenaForFloor(g, floor) ==
    closeSafeGate([g EXCEPT !.levelConfig = getLevelConfig(floor),
                            !.mapMeta = g.world.mapMeta])

(***************************************************************************)
(* droid.js: createDroids, and spawnEnemies with the floor's health scale. *)
(***************************************************************************)
createDroid(i, role, initialState, patrolRouteIndex) ==
    [id |-> i, health |-> DROID_HEALTH, lastShot |-> 0 - Stale,
     role |-> role, state |-> initialState,
     patrolRouteIndex |-> patrolRouteIndex, patrolNodeIndex |-> 0,
     lastSeenPlayerAt |-> 0 - Stale, repositionTarget |-> "null"]

\* i % 0 in JavaScript
NaN == 0 - 1

\* spawnNodes[i % 0] is undefined, and reading spawnNode.x throws
createDroidsThrows(count, meta) == count > 0 /\ meta.enemySpawnNodes = 0

createDroids(count, meta) ==
    LET pursuerCount == Max(1, Min(2, count \div 4))
        n == Min(count, MaxEnemies)
    IN [k \in 1..n |->
          LET i == k - 1
              role == IF i < pursuerCount THEN "PURSUER" ELSE "ZONE_GUARD"
          IN createDroid(i, role,
                         IF role = "PURSUER" THEN "CHASE" ELSE "PATROL",
                         IF meta.patrolRoutes = 0 THEN NaN
                            ELSE i % meta.patrolRoutes)]

\* variant: the droids of every floor start with their base health
ScaledHealth_Unscaled(h, scale) == Max(MIN_DROID_HEALTH, h)

\* Math.max(25, Math.round(health * healthScale))
ScaledHealth(h, scale) == Max(MIN_DROID_HEALTH, (h * scale + 50) \div 100)

\* ev.spawned: the number of droids the loop of createDroids creates, of
\* which the first MaxEnemies are materialised
\* ev.thrown: createDroids threw, and with it spawnEnemies and its callers
spawnEnemies(g, count) ==
    IF createDroidsThrows(count, g.mapMeta) THEN [g EXCEPT !.ev.thrown = TRUE]
    ELSE
    LET droids == createDroids(count, g.mapMeta)
        healthScale == g.levelConfig.enemyScaling.health
    IN [g EXCEPT !.enemies =
            [k \in 1..Len(droids) |->
                [droids[k] EXCEPT !.health = ScaledHealth(@, healthScale)]],
                 !.ev.spawned = count]


(***************************************************************************)
(* Phase entry actions.                                                    *)
(***************************************************************************)
setPhase(g, phase, timer) == [g EXCEPT !.phase = phase, !.phaseTimer = timer]

\* variant: the countdown leaves the gate as it is
enterPrepCountdown_LeaveGate(g) ==
    [setPhase(g, "PREP_COUNTDOWN", ROUND_COUNTDOWN_SECONDS)
        EXCEPT !.combatLive = FALSE]

enterPrepCountdown(g) ==
    closeSafeGate([setPhase(g, "PREP_COUNTDOWN", ROUND_COUNTDOWN_SECONDS)
                      EXCEPT !.combatLive = FALSE])

\* variant: combat goes live with the gate, without the activation delay
enterCombatActivation_NoDelay(g) ==
    openSafeGate([setPhase(g, "COMBAT", 0) EXCEPT !.combatLive = TRUE])

enterCombatActivation(g) ==
    openSafeGate([setPhase(g, "COMBAT", COMBAT_ACTIVATION_DELAY)
                      EXCEPT !.combatLive = FALSE])

\* variant: the pickups of the intermission stay when combat goes live
activateCombat_KeepPickups(g) ==
    IF g.combatLive THEN g
    ELSE [g EXCEPT !.combatLive = TRUE, !.phaseTimer = 0]

activateCombat(g) ==
    IF g.combatLive THEN g
    ELSE [g EXCEPT !.combatLive = TRUE, !.phaseTimer = 0,
                   !.activePickups = clearPickups(@)]

\* variant: the unlock pickups are offered from the first intermission on
PickupTypes_Ungated(round, unlockedWeapons) ==
    (IF round >= 1 THEN <<"health">> ELSE <<>>)
    \o (IF "shotgun" \notin unlockedWeapons THEN <<"unlock_shotgun">> ELSE <<>>)
    \o (IF "sniper" \notin unlockedWeapons THEN <<"unlock_sniper">> ELSE <<>>)

\* pickups.js: the types offered for this round, in spawn order
PickupTypes(round, unlockedWeapons) ==
    (IF round >= 1 THEN <<"health">> ELSE <<>>)
    \o (IF round >= 2 /\ "shotgun" \notin unlockedWeapons
           THEN <<"unlock_shotgun">> ELSE <<>>)
    \o (IF round >= 4 /\ "sniper" \notin unlockedWeapons
           THEN <<"unlock_sniper">> ELSE <<>>)

\* ev.offered: the pickups logged as spawned
spawnRoundPickups(g) ==
    IF g.mapMeta.pickupNodes = 0 THEN [g EXCEPT !.activePickups = clearPickups(@)]
    ELSE LET types == PickupTypes(g.round, g.unlockedWeapons)
         IN [g EXCEPT !.activePickups = types, !.ev.offered = types]

\* variant: the enemy projectiles in flight survive the end of the round
enterIntermission_KeepBullets(g) ==
    Count(spawnRoundPickups([setPhase(g, "INTERMISSION", INTERMISSION_SECONDS)
                                EXCEPT !.combatLive = FALSE]),
          "enterIntermission")

enterIntermission(g) ==
    LET s == [setPhase(g, "INTERMISSION", INTERMISSION_SECONDS)
                 EXCEPT !.combatLive = FALSE,
                        !.enemyBullets = clearBulletArray(@)]
    IN Count(spawnRoundPickups(s), "enterIntermission")

enterRoundEnd(g) ==
    Count([setPhase(g, "ROUND_END", ROUND_END_SECONDS)
              EXCEPT !.combatLive = FALSE,
                     !.activePickups = clearPickups(@),
                     !.enemyBullets = clearBulletArray(@)],
          "enterRoundEnd")

enterArenaGateOpen(g) ==
    openSafeGate(setPhase(g, "ARENA_GATE_OPEN", ARENA_GATE_OPEN_SECONDS))

\* variant: the open gate is held for another period instead of the swap
enterArenaSwap(g) == setPhase(g, "ARENA_SWAP", ARENA_SWAP_SECONDS)

\* variant: the new floor goes on counting the rounds of the old one
advanceToNextFloor_KeepCount(g) ==
    LET s1 == [g EXCEPT !.floor = @ + 1, !.round = @ + 1, !.roundInFloor = @ + 1]
        s2 == [s1 EXCEPT !.enemiesInRound = getEnemiesForRound(s1.round, s1.floor),
                         !.enemies = <<>>,
                         !.bullets = clearBulletArray(@),
                         !.enemyBullets = clearBulletArray(@)]
        s3 == loadArenaForFloor(s2, s2.floor)
    IN LET spawned == spawnEnemies(s3, s3.enemiesInRound)
       IN IF spawned.ev.thrown THEN spawned ELSE enterPrepCountdown(spawned)

\* variant: the first round of the new floor is counted as the last of the old
advanceToNextFloor_SameRound(g) ==
    LET s1 == [g EXCEPT !.floor = @ + 1, !.roundInFloor = 1]
        s2 == [s1 EXCEPT !.enemiesInRound = getEnemiesForRound(s1.round, s1.floor),
                         !.enemies = <<>>,
                         !.bullets = clearBulletArray(@),
                         !.enemyBullets = clearBulletArray(@)]
        s3 == loadArenaForFloor(s2, s2.floor)
    IN LET spawned == spawnEnemies(s3, s3.enemiesInRound)
       IN IF spawned.ev.thrown THEN spawned ELSE enterPrepCountdown(spawned)

advanceToNextFloor_Reopen(g) == enterArenaGateOpen(g)

advanceToNextFloor(g) ==
    LET s1 == [g EXCEPT !.floor = @ + 1, !.round = @ + 1, !.roundInFloor = 1]
        s2 == [s1 EXCEPT !.enemiesInRound = getEnemiesForRound(s1.round, s1.floor),
                         !.enemies = <<>>,
                         !.bullets = clearBulletArray(@),
                         !.enemyBullets = clearBulletArray(@)]
        s3 == loadArenaForFloor(s2, s2.floor)
    IN LET spawned == spawnEnemies(s3, s3.enemiesInRound)
       IN IF spawned.ev.thrown THEN spawned ELSE enterPrepCountdown(spawned)

\* variant: the next round starts without its countdown
startNextRound_NoCountdown(g) ==
    LET s1 == [g EXCEPT !.round = @ + 1, !.roundInFloor = @ + 1]
        s2 == [s1 EXCEPT !.enemiesInRound = getEnemiesForRound(s1.round, s1.floor)]
    IN LET spawned == spawnEnemies(s2, s2.enemiesInRound)
       IN IF spawned.ev.thrown THEN spawned ELSE enterCombatActivation(spawned)

startNextRound(g) ==
    LET s1 == [g EXCEPT !.round = @ + 1, !.roundInFloor = @ + 1]
        s2 == [s1 EXCEPT !.enemiesInRound = getEnemiesForRound(s1.round, s1.floor)]
    IN LET spawned == spawnEnemies(s2, s2.enemiesInRound)
       IN IF spawned.ev.thrown THEN spawned ELSE enterPrepCountdown(spawned)

\* variant: the arena's last round is taken for an ordinary one
RouteRoundClear_OffByOne(g) ==
    IF g.roundInFloor > g.levelConfig.roundsPerArena
        THEN enterRoundEnd(g)
        ELSE enterIntermission(g)

\* the routing both updatePhase and the kill callback use on an empty arena
RouteRoundClear(g) ==
    IF g.roundInFloor >= g.levelConfig.roundsPerArena
        THEN enterRoundEnd(g)
        ELSE enterIntermission(g)

(***************************************************************************)
(* updatePhase(delta)                                                      *)
(***************************************************************************)
updatePhase(g, delta) ==
    LET t == [g EXCEPT !.phaseTimer = @ - delta] IN
    CASE g.phase = "PREP_COUNTDOWN" ->
            IF t.phaseTimer <= 0 THEN enterCombatActivation(t) ELSE t
      [] g.phase = "COMBAT" ->
            IF ~g.combatLive
                THEN IF t.phaseTimer <= 0 THEN activateCombat(t) ELSE t
                ELSE IF Len(g.enemies) = 0 THEN RouteRoundClear(g) ELSE g
      [] g.phase = "INTERMISSION" ->
            IF t.phaseTimer <= 0 THEN startNextRound(t) ELSE t
      [] g.phase = "ROUND_END" ->
            IF t.phaseTimer <= 0 THEN enterArenaGateOpen(t) ELSE t
      [] g.phase = "ARENA_GATE_OPEN" ->
            IF t.phaseTimer <= 0 THEN enterArenaSwap(t) ELSE t
      [] g.phase = "ARENA_SWAP" ->
            IF t.phaseTimer <= 0 THEN advanceToNextFloor(t) ELSE t
      [] OTHER -> g

(***************************************************************************)
(* update.js: enemy AI.  o is what this frame's distance test and ray      *)
(* casts returned for the enemy: distance to the player, line of sight,    *)
(* whether the chase move collided, how far the reposition target is (in   *)
(* hundredths of a world unit), whether the patrol node is within reach.   *)
(***************************************************************************)
setAIState(e, nextState) == [e EXCEPT !.state = nextState]

\* the ring point is geometry; the model records only that one is set
pickRepositionTarget == "point"

\* without a route (no routes at all, or an empty one) it returns at once
updatePatrol(e, o, meta) ==
    IF meta.patrolRoutes = 0 \/ meta.routeLength = 0 THEN e
    ELSE IF o.atNode
        THEN [e EXCEPT !.patrolNodeIndex = (@ + 1) % meta.routeLength]
        ELSE e

\* desired.lengthSq() < 1.2, with the length in hundredths of a world unit
NearTarget(toTarget) == toTarget * toTarget < 12000

\* true when the enemy has arrived (or has no target)
updateReposition(e, o) == e.repositionTarget = "null" \/ NearTarget(o.toTarget)

\* variant: an enemy fires in every frame in which it has a shot
enemyFire_NoRateLimit(e, enemyFireRate, enemyDamage, enemyRange) ==
    <<[e EXCEPT !.lastShot = currentTime],
      <<[speed |-> ENEMY_BULLET_SPEED, range |-> enemyRange,
         damage |-> enemyDamage, distance |-> 0]>>>>

\* enemyFire: returns <<enemy, projectiles created>>
enemyFire(e, enemyFireRate, enemyDamage, enemyRange) ==
    IF currentTime - e.lastShot < enemyFireRate
        THEN <<e, <<>>>>
        ELSE <<[e EXCEPT !.lastShot = currentTime],
               <<[speed |-> ENEMY_BULLET_SPEED, range |-> enemyRange,
                  damage |-> enemyDamage, distance |-> 0]>>>>

\* variant: every enemy returns to its patrol, whatever its role
RepositionExit_Patrol(e, o, cfg) ==
    IF o.distance <= cfg.range /\ o.hasLOS
        THEN setAIState(e, "ENGAGE")
        ELSE setAIState(e, "PATROL")

\* the state an enemy that has finished repositioning goes to
RepositionExit(e, o, cfg) ==
    IF o.distance <= cfg.range /\ o.hasLOS
        THEN setAIState(e, "ENGAGE")
    ELSE IF e.role = "ZONE_GUARD"
        THEN setAIState(e, "PATROL")
    ELSE setAIState(e, "CHASE")

\* variant: a patrolling enemy notices the player through walls
Detect_NoLOS(e, o) ==
    IF o.distance < AI_DETECTION_RANGE /\ e.state = "PATROL"
        THEN setAIState(e, "CHASE") ELSE e

\* the detection test made before the state is acted on
Detect(e, o) ==
    IF o.distance < AI_DETECTION_RANGE /\ o.hasLOS /\ e.state = "PATROL"
        THEN setAIState(e, "CHASE") ELSE e

\* variant: a chasing enemy engages anywhere within its weapon range
ChaseExit_FullRange(e, o, cfg, lost) ==
    IF o.distance <= cfg.range /\ o.hasLOS
        THEN setAIState(e, "ENGAGE")
    ELSE IF (~o.hasLOS /\ lost > REPOSITION_TIMEOUT_MS) \/ o.blocked
        THEN setAIState([e EXCEPT !.repositionTarget = pickRepositionTarget],
                        "REPOSITION")
    ELSE e

\* the CHASE branch, after the chase move; lost is the time since the enemy
\* last saw the player
ChaseExit(e, o, cfg, lost) ==
    IF o.distance * 100 <= cfg.range * 95 /\ o.hasLOS
        THEN setAIState(e, "ENGAGE")
    ELSE IF ~o.hasLOS /\ lost > REPOSITION_TIMEOUT_MS
        THEN setAIState([e EXCEPT !.repositionTarget = pickRepositionTarget],
                        "REPOSITION")
    ELSE IF o.blocked
        THEN setAIState([e EXCEPT !.repositionTarget = pickRepositionTarget],
                        "REPOSITION")
    ELSE e

\* variant: an engaged enemy that lost the player only ever reverts to CHASE
EngageStep_NoReposition(e, o, cfg, lost) ==
    IF ~o.hasLOS /\ lost > ENGAGE_LOST_MS
        THEN <<setAIState(e, "CHASE"), <<>>>>
    ELSE IF o.hasLOS /\ o.distance < cfg.range + 20
        THEN enemyFire(e, cfg.fireRate, cfg.damage, cfg.range)
    ELSE <<e, <<>>>>

\* the ENGAGE branch: <<enemy, projectiles>>
EngageStep(e, o, cfg, lost) ==
    LET e4 == IF ~o.hasLOS /\ lost > ENGAGE_LOST_MS
                 THEN setAIState(e, "CHASE") ELSE e
        f  == IF o.hasLOS /\ o.distance < cfg.range + 20
                 THEN enemyFire(e4, cfg.fireRate, cfg.damage, cfg.range)
                 ELSE <<e4, <<>>>>
        e5 == f[1]
        e6 == IF ~o.hasLOS /\ lost > REPOSITION_TIMEOUT_MS
                 THEN setAIState([e5 EXCEPT !.repositionTarget = pickRepositionTarget],
                                 "REPOSITION")
                 ELSE e5
    IN <<e6, f[2]>>

\* variant: a repositioning enemy completes its move before it engages
RepositionStep_WaitArrival(e, o, cfg) ==
    IF updateReposition(e, o)
        THEN RepositionExit([e EXCEPT !.repositionTarget = "null"], o, cfg)
        ELSE e

\* the REPOSITION branch
RepositionStep(e, o, cfg) ==
    LET done == updateReposition(e, o)
        cleared == [e EXCEPT !.repositionTarget = "null"]
    IN IF done
         THEN RepositionExit(cleared, o, cfg)
       ELSE IF o.distance <= cfg.range /\ o.hasLOS
         THEN setAIState(cleared, "ENGAGE")
       ELSE e

\* one iteration of the forEach of updateEnemies: <<enemy, projectiles>>
EvaluateEnemy(e, o, cfg, isCombatPhase) ==
    IF ~isCombatPhase
        THEN <<IF e.role = "ZONE_GUARD" THEN setAIState(e, "PATROL") ELSE e, <<>>>>
    ELSE
    LET e1 == IF o.hasLOS THEN [e EXCEPT !.lastSeenPlayerAt = currentTime] ELSE e
        e2 == Detect(e1, o)
        e3 == IF e2.role = "PURSUER" /\ e2.state = "PATROL"
                 THEN setAIState(e2, "CHASE") ELSE e2
        lost == currentTime - e3.lastSeenPlayerAt
    IN
    CASE e3.state = "PATROL" -> <<updatePatrol(e3, o, cfg.mapMeta), <<>>>>
      [] e3.state = "CHASE" -> <<ChaseExit(e3, o, cfg, lost), <<>>>>
      [] e3.state = "ENGAGE" -> EngageStep(e3, o, cfg, lost)
      [] e3.state = "REPOSITION" -> <<RepositionStep(e3, o, cfg), <<>>>>
      [] OTHER -> <<e3, <<>>>>

RECURSIVE EnemyLoop(_, _, _, _, _)
EnemyLoop(g, k, ai, cfg, isCombatPhase) ==
    IF k > Len(g.enemies) THEN g
    ELSE LET r == EvaluateEnemy(g.enemies[k], ai[k], cfg, isCombatPhase)
             s == [g EXCEPT !.enemies[k] = r[1],
                            !.enemyBullets = @ \o r[2],
                            !.ev.enemyShots = @ + Len(r[2])]
         \* the loop goes on from the state this iteration left, computed once
         IN CHOOSE out \in {EnemyLoop(x, k + 1, ai, cfg, isCombatPhase) : x \in {s}} : TRUE

\* the enemyConfig and the mapMeta updateGame passes
enemyConfig(g) ==
    [range    |-> ENEMY_RANGE,
     fireRate |-> ENEMY_FIRE_RATE,
     damage   |-> (ENEMY_DAMAGE * g.levelConfig.enemyScaling.damage) \div 100,
     mapMeta  |-> g.mapMeta]

\* variant: the enemies act as soon as the phase is COMBAT
IsCombatPhase_AnyCombat(g) == g.phase = "COMBAT"

\* the isCombatPhase argument updateGame passes
IsCombatPhase(g) == g.phase = "COMBAT" /\ g.combatLive

updateEnemies(g, ai) ==
    LET cfg == enemyConfig(g)
        isCombatPhase == IsCombatPhase(g)
    IN EnemyLoop([g EXCEPT !.ev.sight = IF isCombatPhase THEN ai ELSE <<>>],
                 1, ai, cfg, isCombatPhase)

(***************************************************************************)
(* gameOver(): timers are scheduled by the action that ran the handler,    *)
(* from ev.gameOver.                                                       *)
(***************************************************************************)
\* variant: a lost game stays in the phase it was lost in
gameOver_KeepPhase(g) ==
    IF ~g.gameStarted THEN g
    ELSE closeSafeGate(Count(
            [g EXCEPT !.gameStarted = FALSE,
                      !.activePickups = clearPickups(@),
                      !.bullets = clearBulletArray(@),
                      !.enemyBullets = clearBulletArray(@)],
            "gameOver"))

gameOver(g) ==
    IF ~g.gameStarted THEN g
    ELSE closeSafeGate(Count(
            [g EXCEPT !.gameStarted = FALSE, !.phase = "IDLE",
                      !.combatLive = FALSE,
                      !.activePickups = clearPickups(@),
                      !.bullets = clearBulletArray(@),
                      !.enemyBullets = clearBulletArray(@)],
            "gameOver"))

(***************************************************************************)
(* The callbacks updateGame passes to updateBullets.                       *)
(***************************************************************************)
onEnemyKilled(g) ==
    LET s == Count(g, "killCallbacks") IN
    IF s.phase = "COMBAT" /\ s.combatLive /\ Len(s.enemies) = 0
        THEN RouteRoundClear(s)
        ELSE s

\* variant: the player survives at exactly zero health
onPlayerHit_Strict(g, damage) ==
    LET s == Count([g EXCEPT !.health = @ - damage], "playerHits") IN
    IF s.health < 0 THEN gameOver(s) ELSE s

onPlayerHit(g, damage) ==
    LET s == Count([g EXCEPT !.health = @ - damage], "playerHits") IN
    IF s.health <= 0 THEN gameOver(s) ELSE s

(***************************************************************************)
(* updateBullets.  pb[i] and eb[i] are what the distance tests and the     *)
(* wall ray cast returned for the projectile at index i of its array when  *)
(* the call began: pb[i].inRadius is the set of ids of the enemies within  *)
(* the hit radius of the projectile's new position.                        *)
(***************************************************************************)
\* Array.prototype.splice(i, 1); a no-op past the end of the array
RemoveAt(seq, i) ==
    IF i > Len(seq) THEN seq
    ELSE SubSeq(seq, 1, i - 1) \o SubSeq(seq, i + 1, Len(seq))

\* variant: the last enemy within the hit radius takes the damage
FirstInRadius_Last(enemies, inRadius) ==
    LET hit == {j \in 1..Len(enemies) : enemies[j].id \in inRadius}
    IN IF hit = {} THEN 0 ELSE CHOOSE j \in hit : \A k \in hit : j >= k

\* index of the first enemy of the array that is within the hit radius, or 0
FirstInRadius(enemies, inRadius) ==
    LET hit == {j \in 1..Len(enemies) : enemies[j].id \in inRadius}
    IN IF hit = {} THEN 0 ELSE CHOOSE j \in hit : \A k \in hit : j <= k

\* variant: an enemy is removed only below zero health
HitEnemy_Strict(g, j, damage) ==
    LET s == [g EXCEPT !.enemies[j].health = @ - damage] IN
    IF s.enemies[j].health < 0
        THEN onEnemyKilled(Count([s EXCEPT !.enemies = RemoveAt(@, j)], "kills"))
        ELSE s

\* the inner for-loop over enemies for one player projectile
HitEnemy(g, j, damage) ==
    LET s == [g EXCEPT !.enemies[j].health = @ - damage] IN
    IF s.enemies[j].health <= 0
        THEN onEnemyKilled(Count([s EXCEPT !.enemies = RemoveAt(@, j)], "kills"))
        ELSE s

\* the log line of a hit, with the living enemies that were within the hit
\* radius of the projectile
Struck(g, inRadius, j, damage) ==
    [g EXCEPT !.ev.struck =
        Append(@, [near   |-> inRadius \cap {g.enemies[k].id : k \in 1..Len(g.enemies)},
                   id     |-> g.enemies[j].id,
                   damage |-> damage])]

\* variant: a projectile is spent as soon as it has flown its range
Spent_AtRange(bullet) == bullet.distance >= bullet.range

\* the range test both projectile loops make after the move
Spent(bullet) == bullet.distance > bullet.range

RECURSIVE PlayerBulletLoop(_, _, _)
PlayerBulletLoop(g, i, pb) ==
    IF i < 1 THEN g
    ELSE
    LET s1 == [g EXCEPT !.bullets[i].distance = @ + g.bullets[i].speed]
        bullet == s1.bullets[i]
        j == FirstInRadius(s1.enemies, pb[i].inRadius)
        hitEnemy == j # 0
        s2 == IF hitEnemy
                 THEN HitEnemy(Struck(s1, pb[i].inRadius, j, bullet.damage),
                               j, bullet.damage)
                 ELSE s1
        hitWall == pb[i].wall
        s3 == IF Spent(bullet) \/ hitEnemy \/ hitWall
                 THEN [s2 EXCEPT !.bullets = RemoveAt(@, i)]
                 ELSE s2
    IN PlayerBulletLoop(s3, i - 1, pb)

\* the body of the enemy-projectile loop for index i; o is what the
\* projectile observes
EnemyBulletStep(g, i, o) ==
    LET moved == [g EXCEPT !.enemyBullets[i].distance = @ + g.enemyBullets[i].speed]
        bullet == moved.enemyBullets[i]
    IN IF o.hitPlayer
         THEN [onPlayerHit(moved, bullet.damage) EXCEPT !.enemyBullets = RemoveAt(@, i)]
         ELSE IF Spent(bullet) \/ o.wall
                THEN [moved EXCEPT !.enemyBullets = RemoveAt(@, i)]
                ELSE moved

\* enemyBullets[i] is undefined once gameOver has emptied the array under
\* the loop: reading bullet.position then throws and ends updateGame
RECURSIVE EnemyBulletLoop(_, _, _)
EnemyBulletLoop(g, i, eb) ==
    IF i < 1 THEN g
    ELSE IF i > Len(g.enemyBullets) THEN [g EXCEPT !.ev.fault = TRUE]
    ELSE EnemyBulletLoop(EnemyBulletStep(g, i, eb[i]), i - 1, eb)

\* the second loop starts from the length the array has after the first
EnemyBullets(g, eb) == EnemyBulletLoop(g, Len(g.enemyBullets), eb)

updateBullets(g, pb, eb) ==
    EnemyBullets(PlayerBulletLoop(g, Len(g.bullets), pb), eb)

(***************************************************************************)
(* Pickups.                                                                *)
(***************************************************************************)
\* variant: healing is not capped
Healed_Uncapped(health) == health + HEAL_AMOUNT

\* Math.min(100, gameState.health + HEAL_AMOUNT)
Healed(health) == Min(FULL_HEALTH, health + HEAL_AMOUNT)

\* variant: the sniper takes the place of the shotgun
applyPickup_Replace(g, type) ==
    CASE type = "health" ->
            [g EXCEPT !.health = Healed(@)]
      [] type = "unlock_shotgun" /\ "shotgun" \notin g.unlockedWeapons ->
            [g EXCEPT !.unlockedWeapons = @ \cup {"shotgun"}]
      [] type = "unlock_sniper" /\ "sniper" \notin g.unlockedWeapons ->
            [g EXCEPT !.unlockedWeapons = {"rifle", "sniper"}]
      [] OTHER -> g

applyPickup(g, type) ==
    CASE type = "health" ->
            [g EXCEPT !.health = Healed(@)]
      [] type = "unlock_shotgun" /\ "shotgun" \notin g.unlockedWeapons ->
            [g EXCEPT !.unlockedWeapons = @ \cup {"shotgun"}]
      [] type = "unlock_sniper" /\ "sniper" \notin g.unlockedWeapons ->
            [g EXCEPT !.unlockedWeapons = @ \cup {"sniper"}]
      [] OTHER -> g

\* the body of the pickup loop for index i; ev.collected is the array of
\* collected types the function returns
CollectStep(g, i, near) ==
    IF g.activePickups[i] \in near
        THEN applyPickup([g EXCEPT !.activePickups = RemoveAt(@, i),
                                   !.ev.collected = Append(@, g.activePickups[i])],
                         g.activePickups[i])
        ELSE g

\* near: the pickup types within the collection radius of the player
RECURSIVE tryCollectPickups(_, _, _)
tryCollectPickups(g, i, near) ==
    IF i < 1 THEN g
    ELSE tryCollectPickups(CollectStep(g, i, near), i - 1, near)

(***************************************************************************)
(* updateGame(delta): phase, enemies, bullets, pickups, in that order.     *)
(* The stages follow one another in the frame action, each with what the   *)
(* frame observes at that stage.                                           *)
(***************************************************************************)
\* the pickup stage of updateGame; a frame that threw never gets here
CollectStage(g, near) ==
    IF g.ev.fault \/ g.ev.thrown THEN g
    ELSE IF g.phase \in {"INTERMISSION", "PREP_COUNTDOWN"}
        THEN tryCollectPickups(g, Len(g.activePickups), near)
        ELSE g

(***************************************************************************)
(* game.js: fireWeapon and reloadWeapon, and their wrappers.               *)
(***************************************************************************)
createBullet(weapon) ==
    [speed |-> PLAYER_BULLET_SPEED, range |-> weapon.range,
     damage |-> weapon.damage, distance |-> 0]

\* variant: the shotgun issues one projectile like the other weapons
Pellets_Single(weaponType) == 1

\* number of projectiles one activation issues
Pellets(weaponType) ==
    IF weaponType = "shotgun" /\ weapons[weaponType].pellets # 0
        THEN weapons[weaponType].pellets ELSE 1

fireWeaponLogic(weaponType, ammo, lastFireTime, bullets) ==
    LET weapon == weapons[weaponType] IN
    IF ammo <= 0 \/ currentTime - lastFireTime < weapon.fireRate
        THEN [ammo |-> ammo, lastFireTime |-> lastFireTime, bullets |-> bullets]
        ELSE [ammo |-> ammo - 1, lastFireTime |-> currentTime,
              bullets |-> bullets \o [k \in 1..Pellets(weaponType) |-> createBullet(weapon)]]

\* variant: the trigger works in every phase of a started game
fireWeapon_AnyPhase(g) ==
    IF ~g.gameStarted THEN g
    ELSE LET result == fireWeaponLogic(g.weaponType, g.ammo, g.lastFireTime, g.bullets)
         IN [g EXCEPT !.ammo = result.ammo,
                      !.lastFireTime = result.lastFireTime,
                      !.bullets = result.bullets,
                      !.weaponAmmo[g.weaponType] = result.ammo,
                      !.ev.accepted = result.ammo < g.ammo]

\* variant: a shot is not written back to the weapon's stored ammo
fireWeapon_NoStore(g) ==
    IF ~g.gameStarted \/ g.phase # "COMBAT" \/ ~g.combatLive THEN g
    ELSE LET result == fireWeaponLogic(g.weaponType, g.ammo, g.lastFireTime, g.bullets)
         IN [g EXCEPT !.ammo = result.ammo,
                      !.lastFireTime = result.lastFireTime,
                      !.bullets = result.bullets,
                      !.ev.accepted = result.ammo < g.ammo]

fireWeapon(g) ==
    IF ~g.gameStarted \/ g.phase # "COMBAT" \/ ~g.combatLive THEN g
    ELSE LET result == fireWeaponLogic(g.weaponType, g.ammo, g.lastFireTime, g.bullets)
         IN [g EXCEPT !.ammo = result.ammo,
                      !.lastFireTime = result.lastFireTime,
                      !.bullets = result.bullets,
                      !.weaponAmmo[g.weaponType] = result.ammo,
                      !.ev.accepted = result.ammo < g.ammo]

FullMagazines == [w \in WeaponTypes |-> weapons[w].maxAmmo]

\* variant: a reload tops the magazine up by ten rounds
reloadWeapon_Partial(weaponType, currentAmmo) ==
    Min(weapons[weaponType].maxAmmo, currentAmmo + 10)

reloadWeapon(weaponType, currentAmmo) ==
    LET maxAmmo == weapons[weaponType].maxAmmo IN
    IF currentAmmo = maxAmmo THEN currentAmmo ELSE maxAmmo

\* variant: a reload fills the magazine of every weapon
reloadCurrentWeapon_All(g) ==
    [g EXCEPT !.ammo = reloadWeapon(g.weaponType, g.ammo),
              !.weaponAmmo = FullMagazines]

reloadCurrentWeapon(g) ==
    LET ammo == reloadWeapon(g.weaponType, g.ammo) IN
    [g EXCEPT !.ammo = ammo, !.weaponAmmo[g.weaponType] = ammo]

\* variant: the switch keeps the rounds of the weapon it leaves
attemptWeaponSwitch_KeepAmmo(g, weaponType) ==
    IF weaponType \notin g.unlockedWeapons THEN [g EXCEPT !.ev.notice = "locked"]
    ELSE IF g.weaponType = weaponType THEN g
    ELSE [g EXCEPT !.weaponType = weaponType,
                   !.maxAmmo = weapons[weaponType].maxAmmo,
                   !.ev.notice = "switched"]

\* variant: the keys select a weapon whether or not it is unlocked
attemptWeaponSwitch_NoLock(g, weaponType) ==
    IF g.weaponType = weaponType THEN g
    ELSE [g EXCEPT !.weaponType = weaponType,
                   !.maxAmmo = weapons[weaponType].maxAmmo,
                   !.ammo = g.weaponAmmo[weaponType],
                   !.ev.notice = "switched"]

\* ev.notice: the notice the request shows
attemptWeaponSwitch(g, weaponType) ==
    IF weaponType \notin g.unlockedWeapons THEN [g EXCEPT !.ev.notice = "locked"]
    ELSE IF g.weaponType = weaponType THEN g
    ELSE [g EXCEPT !.weaponType = weaponType,
                   !.maxAmmo = weapons[weaponType].maxAmmo,
                   !.ammo = g.weaponAmmo[weaponType],
                   !.ev.notice = "switched"]

(***************************************************************************)
(* startGame()                                                             *)
(***************************************************************************)
startGame(g) ==
    LET w  == IF g.weaponType \notin START_UNLOCKED_WEAPONS THEN "rifle" ELSE g.weaponType
        s1 == [g EXCEPT !.weaponType = w,
                        !.gameStarted = TRUE,
                        !.floor = 1, !.round = 1, !.roundInFloor = 1,
                        !.levelConfig = getLevelConfig(1),
                        !.enemiesInRound = getEnemiesForRound(1, 1),
                        !.health = FULL_HEALTH,
                        !.unlockedWeapons = {"rifle"},
                        !.weaponAmmo = FullMagazines,
                        !.maxAmmo = weapons[w].maxAmmo,
                        !.ammo = FullMagazines[w],
                        !.lastFireTime = 0 - Stale,
                        !.enemies = <<>>,
                        !.bullets = clearBulletArray(@),
                        !.enemyBullets = clearBulletArray(@),
                        !.activePickups = clearPickups(@)]
        s2 == loadArenaForFloor(s1, s1.floor)
    IN LET spawned == spawnEnemies(s2, s2.enemiesInRound)
       IN IF spawned.ev.thrown THEN spawned ELSE enterPrepCountdown(spawned)

\* variant: the menu keeps the weapon of the lost session selected
resetToMenu_KeepWeapon(g) ==
    [g EXCEPT !.enemies = <<>>,
              !.unlockedWeapons = {"rifle"}]

\* the second setTimeout callback of gameOver
resetToMenu(g) ==
    [g EXCEPT !.enemies = <<>>,
              !.unlockedWeapons = {"rifle"},
              !.weaponType = "rifle"]

(***************************************************************************)
(* The wall clock.                                                         *)
(***************************************************************************)
\* every stored timestamp after delta more milliseconds
AdvanceClock(g, delta) ==
    [g EXCEPT !.lastFireTime = Shift(@, delta),
              !.enemies = [k \in 1..Len(@) |->
                             [@[k] EXCEPT !.lastShot = Shift(@, delta),
                                          !.lastSeenPlayerAt = Shift(@, delta)]],
              !.ev.delta = delta]

TimersAfter(ts, delta) ==
    [k \in 1..Len(ts) |-> [ts[k] EXCEPT !.remaining = Max(0, @ - delta)]]

\* a due setTimeout callback runs before the next animation frame
NoTimerDue == \A k \in 1..Len(timers) : timers[k].remaining > 0

\* the phase timer is counting down in this state
TimerRunning(g) ==
    g.gameStarted /\ g.phase # "IDLE" /\ ~(g.phase = "COMBAT" /\ g.combatLive)

ElapsedAfter(g, s, delta) ==
    IF s.phase # g.phase \/ s.combatLive # g.combatLive \/ ~TimerRunning(s)
        THEN 0
        ELSE elapsed + delta

(***************************************************************************)
(* Observations of a frame.  An environment E bounds what the frames of a  *)
(* specification may observe.                                              *)
(***************************************************************************)
AIObservation ==
    [distance : {30, 100, 145, 160, 300}, hasLOS : BOOLEAN, blocked : BOOLEAN,
     toTarget : {105, 115, 125}, atNode : BOOLEAN]

Unobserved ==
    [distance |-> 300, hasLOS |-> FALSE, blocked |-> FALSE,
     toTarget |-> 125, atNode |-> FALSE]

Ids(enemies) == {enemies[k].id : k \in 1..Len(enemies)}

\* a projectile that has flown E.flight frames is at a wall; an arena with
\* flight 0 has no wall in the line of fire
AtWall(E, b) == E.flight > 0 /\ b.distance + b.speed >= E.flight * b.speed

\* the sets of enemies a projectile can be within hit radius of
InRadiusChoices(E, ids) ==
    (IF E.miss \/ ids = {} THEN {{}} ELSE {})
    \cup (IF ~E.targets THEN {}
          ELSE IF E.overlap THEN (SUBSET ids) \ {{}}
          ELSE IF E.focus THEN {{i} : i \in {j \in ids : \A k \in ids : j <= k}}
          ELSE {{i} : i \in ids})

\* what one player projectile can observe.  A wall ray cast is reported only
\* for a projectile that hit nobody: the code removes a projectile that hit
\* whatever the ray cast says
PlayerSight(E, g, b) ==
    {o \in [inRadius : InRadiusChoices(E, Ids(g.enemies)), wall : BOOLEAN] :
        /\ o.inRadius # {} => ~o.wall
        /\ E.flight = 0 => ~o.wall
        /\ AtWall(E, b) /\ o.inRadius = {} => o.wall}

\* projectiles that left the muzzle together with the same weapon (the
\* pellets of one volley) observe the same
PlayerBulletObs(E, g) ==
    LET n == Len(g.bullets)
        Volleys == {g.bullets[i] : i \in 1..n}
        All == UNION {PlayerSight(E, g, b) : b \in Volleys}
    IN {[i \in 1..n |-> f[g.bullets[i]]] :
           f \in {h \in [Volleys -> All] :
                    \A b \in Volleys : h[b] \in PlayerSight(E, g, b)}}

EnemySight(E, b) ==
    {o \in [hitPlayer : E.hitPlayer, wall : BOOLEAN] :
        /\ o.hitPlayer => ~o.wall
        /\ E.flight = 0 => ~o.wall
        /\ AtWall(E, b) /\ ~o.hitPlayer => o.wall}

\* in an arena with salvo, the enemy projectiles of one salvo (fired in the
\* same frame) observe the same
EnemyBulletObs(E, g) ==
    LET n == Len(g.enemyBullets)
        Salvos == {g.enemyBullets[i] : i \in 1..n}
        All == UNION {EnemySight(E, b) : b \in Salvos}
    IN IF E.salvo
         THEN {[i \in 1..n |-> f[g.enemyBullets[i]]] :
                 f \in {h \in [Salvos -> All] :
                          \A b \in Salvos : h[b] \in EnemySight(E, b)}}
         ELSE {eb \in [1..n -> All] :
                 \A i \in 1..n : eb[i] \in EnemySight(E, g.enemyBullets[i])}

\* pickups are looked at only in the collection window
NearObs(E, g) ==
    IF g.activePickups # <<>> /\ g.phase \in {"INTERMISSION", "PREP_COUNTDOWN"}
        THEN E.near ELSE {{}}

(***************************************************************************)
(* Environments.  The arena of a session, drawn when the game starts,      *)
(* decides what the frames of the session observe and which inputs the     *)
(* player uses:                                                            *)
(*   hunt    the player stays out of sight and picks the droids off one    *)
(*           after the other with the rifle, floor after floor             *)
(*   siege   the droids see the player at close range and shoot, their     *)
(*           projectiles arriving within the frame; the player does not    *)
(*           shoot back                                                    *)
(*   ambush  the player clears two rounds without a miss, collects every   *)
(*           pickup, and is besieged in the third round, switching weapons *)
(*   armory  the player clears two rounds without a miss, collects every   *)
(*           pickup, and then handles the weapons against droids in cover  *)
(*   gallery the player clears two rounds without a miss, collects every   *)
(*           pickup, and then shoots with either weapon at droids that     *)
(*           stand together                                                *)
(*   maze    the droids, moving together, lose and regain sight of the     *)
(*           player at every distance; nobody hits anybody                 *)
(*   longshot the player fires one rifle shot down a range without walls,  *)
(*           out of sight of the droids                                    *)
(*   crossfire the first round is fought at close range by both sides,     *)
(*           the droids' projectiles staying in flight beyond the frame,   *)
(*           and the player collects the health pickup of the              *)
(*           intermission; from the second round on the player is besieged *)
(***************************************************************************)
Close ==
    {a \in AIObservation : a.distance = 100 /\ a.hasLOS
        /\ ~a.blocked /\ a.toTarget = 125 /\ ~a.atNode}

\* each evaluation of an enemy reads at most one of blocked, toTarget, atNode
Wandering ==
    {a \in AIObservation : a.distance \in {100, 145, 160, 300}
        /\ a.blocked = a.atNode
        /\ (a.blocked <=> a.toTarget = 105)
        /\ (a.toTarget = 125 => (a.distance = 300 /\ ~a.hasLOS))}

Inputs == {"fire", "reload", "switch"}

Hunt ==
    [deltas |-> {1000}, ai |-> {Unobserved}, inputs |-> Inputs,
     targets |-> TRUE, miss |-> TRUE, overlap |-> FALSE, focus |-> TRUE,
     together |-> TRUE, salvo |-> FALSE,
     hitPlayer |-> {FALSE}, near |-> {{}, {"health"}}, flight |-> MaxFlight]

Siege ==
    [deltas |-> {500, 1000}, ai |-> Close, inputs |-> {},
     targets |-> FALSE, miss |-> TRUE, overlap |-> FALSE, focus |-> FALSE,
     together |-> TRUE, salvo |-> FALSE,
     hitPlayer |-> BOOLEAN, near |-> {{}}, flight |-> 1]

Besieged == [Siege EXCEPT !.inputs = {"switch"}]

\* clearing rounds without a miss, collecting every pickup
Sweep ==
    [deltas |-> {1000}, ai |-> {Unobserved}, inputs |-> {"fire"},
     targets |-> TRUE, miss |-> FALSE, overlap |-> FALSE, focus |-> FALSE,
     together |-> TRUE, salvo |-> FALSE,
     hitPlayer |-> {FALSE}, near |-> {PickupKinds}, flight |-> MaxFlight]

Range ==
    [deltas |-> {1000}, ai |-> {Unobserved}, inputs |-> Inputs,
     targets |-> FALSE, miss |-> TRUE, overlap |-> FALSE, focus |-> FALSE,
     together |-> TRUE, salvo |-> FALSE,
     hitPlayer |-> {FALSE}, near |-> {{}}, flight |-> MaxFlight]

Gallery ==
    [deltas |-> {1000}, ai |-> {Unobserved}, inputs |-> {"fire", "switch"},
     targets |-> TRUE, miss |-> FALSE, overlap |-> TRUE, focus |-> FALSE,
     together |-> TRUE, salvo |-> FALSE,
     hitPlayer |-> {FALSE}, near |-> {PickupKinds}, flight |-> MaxFlight]

Maze(g) ==
    [deltas |-> IF g.phase = "COMBAT" /\ g.combatLive THEN {500, 1000} ELSE {1000},
     ai |-> Wandering, inputs |-> {},
     targets |-> FALSE, miss |-> TRUE, overlap |-> FALSE, focus |-> FALSE,
     together |-> TRUE, salvo |-> FALSE,
     hitPlayer |-> {FALSE}, near |-> {{}}, flight |-> MaxFlight]

\* one shot down a range without walls, at droids that never come near
Longshot(g) ==
    [deltas |-> {1000}, ai |-> {Unobserved},
     inputs |-> IF g.ammo = g.maxAmmo THEN {"fire"} ELSE {},
     targets |-> FALSE, miss |-> TRUE, overlap |-> FALSE, focus |-> FALSE,
     together |-> TRUE, salvo |-> FALSE,
     hitPlayer |-> {FALSE}, near |-> {{}}, flight |-> 0]

\* the droids shoot from close range, their projectiles staying in flight
\* beyond the frame, while the player shoots them down without a miss
Crossfire ==
    [deltas |-> {1000}, ai |-> Close, inputs |-> {"fire"},
     targets |-> TRUE, miss |-> FALSE, overlap |-> FALSE, focus |-> TRUE,
     together |-> TRUE, salvo |-> TRUE,
     hitPlayer |-> BOOLEAN, near |-> {{"health"}}, flight |-> MaxFlight + 1]

\* nothing stands in the line of fire: the player shoots the droids of the
\* first round down with the rifle, a shot at the last droid standing may go
\* wide in the frame it is fired in, and outside live combat a projectile may
\* pass a droid or hit it
Stray(g) ==
    LET last == Len(g.enemies) = 1 /\ g.enemies[1].health <= weapons.rifle.damage
        live == g.phase = "COMBAT" /\ g.combatLive
        wide == last /\ Len(g.bullets) = 1 /\ g.bullets[1].distance = 0
    IN [deltas |-> {1000}, ai |-> {Unobserved},
        inputs |-> IF g.round = 1 /\ Len(g.bullets) < (IF last THEN 2 ELSE 1)
                      THEN {"fire"} ELSE {},
        targets |-> TRUE, miss |-> wide \/ ~live, overlap |-> FALSE,
        focus |-> TRUE, together |-> TRUE, salvo |-> FALSE,
        hitPlayer |-> {FALSE}, near |-> {{}}, flight |-> 0]

\* the player is never hit and clears every round with the rifle, one shot
\* in flight at a time and none missing, reloading an empty magazine, and
\* tries the weapon keys in the first countdown
Drill(g) ==
    [deltas |-> IF g.phase = "COMBAT" /\ g.combatLive THEN {1000} ELSE {500, 1000},
     ai |-> {Unobserved},
     inputs |-> (IF g.phase = "COMBAT" /\ g.combatLive /\ g.bullets = <<>>
                    THEN {"fire"} ELSE {})
                \cup (IF g.ammo = 0 THEN {"reload"} ELSE {})
                \cup (IF g.phase = "PREP_COUNTDOWN" /\ g.round = 1
                         THEN {"switch"} ELSE {}),
     targets |-> TRUE, miss |-> FALSE, overlap |-> FALSE, focus |-> TRUE,
     together |-> TRUE, salvo |-> FALSE,
     hitPlayer |-> {FALSE}, near |-> {{}}, flight |-> MaxFlight]

EnvOf(a, g) ==
    CASE a = "siege"  -> Siege
      [] a = "drill" -> Drill(g)
      [] a = "stray" -> Stray(g)
      [] a = "crossfire" -> IF g.round < 2 THEN Crossfire ELSE Siege
      [] a = "longshot" -> Longshot(g)
      [] a = "ambush" -> IF g.round < 3 THEN Sweep ELSE Besieged
      [] a = "armory" -> IF g.round < 3 THEN Sweep ELSE Range
      [] a = "gallery" -> IF g.round < 3 THEN Sweep ELSE Gallery
      [] a = "maze"   -> Maze(g)
      [] OTHER        -> Hunt

Arenas == {"hunt", "siege", "ambush", "armory", "gallery", "maze", "longshot",
           "crossfire", "stray"}

(***************************************************************************)
(* Actions.                                                                *)
(***************************************************************************)
gate0 == [isOpen |-> FALSE, solid |-> TRUE]

\* gameState after init(), which loads the arena of floor 1; world is what
\* createEnvironment builds
NewGame(world) ==
    [gameStarted |-> FALSE, phase |-> "IDLE", phaseTimer |-> 0,
     combatLive |-> FALSE,
     health |-> FULL_HEALTH, round |-> 1, roundInFloor |-> 1, floor |-> 1,
     levelConfig |-> getLevelConfig(1), enemiesInRound |-> 5,
     weaponType |-> "rifle", ammo |-> 0, maxAmmo |-> 0,
     weaponAmmo |-> FullMagazines, unlockedWeapons |-> {"rifle"},
     lastFireTime |-> 0 - Stale,
     enemies |-> <<>>, bullets |-> <<>>, enemyBullets |-> <<>>,
     activePickups |-> <<>>, gate |-> gate0,
     world |-> world, mapMeta |-> world.mapMeta, ev |-> NoEvents]

Init ==
    /\ gameState = NewGame([mapMeta |-> mapMeta])
    /\ dom = [startScreen |-> "flex", gameOver |-> "none", blackScreen |-> "none"]
    /\ timers = <<>>
    /\ elapsed = 0
    /\ arena = "hunt"

\* variant: the start button can be clicked whatever is on display
StartGame_Anytime(a) ==
    /\ arena' = a
    /\ gameState' = startGame(Began(gameState))
    /\ dom' = [dom EXCEPT !.startScreen = "none", !.gameOver = "none",
                          !.blackScreen = "none"]
    /\ elapsed' = 0
    /\ UNCHANGED timers

\* click on #startButton, which is part of the start screen
StartGame(a) ==
    /\ dom.startScreen # "none"
    /\ arena' = a
    /\ gameState' = startGame(Began(gameState))
    /\ dom' = [dom EXCEPT !.startScreen = "none", !.gameOver = "none",
                          !.blackScreen = "none"]
    /\ elapsed' = 0
    /\ UNCHANGED timers

\* click on an unlocked weapon card of the start screen
CardClick(w) ==
    /\ dom.startScreen # "none"
    /\ w \in START_UNLOCKED_WEAPONS
    /\ gameState' = [Began(gameState) EXCEPT !.weaponType = w]
    /\ UNCHANGED <<dom, timers, elapsed, arena>>

\* document click
Fire ==
    /\ "fire" \in EnvOf(arena, gameState).inputs
    /\ gameState' = fireWeapon(Began(gameState))
    /\ UNCHANGED <<dom, timers, elapsed, arena>>

\* variant: the key handler reloads whether a game is in progress or not
Reload_Unguarded ==
    /\ "reload" \in EnvOf(arena, gameState).inputs
    /\ gameState' = reloadCurrentWeapon(Began(gameState))
    /\ UNCHANGED <<dom, timers, elapsed, arena>>

\* keydown KeyR
Reload ==
    /\ "reload" \in EnvOf(arena, gameState).inputs
    /\ gameState' = IF gameState.gameStarted
                       THEN reloadCurrentWeapon(Began(gameState))
                       ELSE Began(gameState)
    /\ UNCHANGED <<dom, timers, elapsed, arena>>

\* keydown Digit1, Digit2, Digit3
Switch(w) ==
    /\ "switch" \in EnvOf(arena, gameState).inputs
    /\ gameState' = IF gameState.gameStarted
                       THEN attemptWeaponSwitch(Began(gameState), w)
                       ELSE Began(gameState)
    /\ UNCHANGED <<dom, timers, elapsed, arena>>

\* the frame leaves s as the new state
FrameEnd(delta, s) ==
    /\ s.round <= MaxRound
    /\ gameState' = s
    /\ timers' = TimersAfter(timers, delta) \o
            (IF s.ev.gameOver > 0
               THEN <<[cb |-> "black", remaining |-> GAME_OVER_DELAY]>>
               ELSE <<>>)
    /\ dom' = IF s.ev.gameOver > 0 THEN [dom EXCEPT !.gameOver = "block"] ELSE dom
    /\ elapsed' = ElapsedAfter(gameState, s, delta)

FramePickups(E, delta, s3) ==
    \E near \in NearObs(E, s3) :
        \E s4 \in {CollectStage(s3, near)} : FrameEnd(delta, s4)

FrameBullets(E, delta, s2) ==
    \E pb \in PlayerBulletObs(E, s2), eb \in EnemyBulletObs(E, s2) :
        \E s3 \in {IF s2.ev.thrown THEN s2 ELSE updateBullets(s2, pb, eb)} :
            FramePickups(E, delta, s3)

\* what the enemies of a frame can observe
EnemyObs(E, g) ==
    LET n == Len(g.enemies) IN
    IF ~(g.phase = "COMBAT" /\ g.combatLive) THEN {[k \in 1..n |-> Unobserved]}
    ELSE IF E.together THEN {[k \in 1..n |-> o] : o \in E.ai}
    ELSE [1..n -> E.ai]

FrameEnemies(E, delta, s1) ==
    \E ai \in EnemyObs(E, s1) :
        \E s2 \in {IF s1.ev.thrown THEN s1 ELSE updateEnemies(s1, ai)} :
            FrameBullets(E, delta, s2)

\* one animation frame: animate() calls updateGame only while gameStarted
Frame(E) ==
    /\ NoTimerDue
    /\ \E delta \in E.deltas :
        IF ~gameState.gameStarted
          THEN /\ gameState' = AdvanceClock(Began(gameState), delta)
               /\ timers' = TimersAfter(timers, delta)
               /\ elapsed' = 0
               /\ dom' = dom
          ELSE \E s1 \in {updatePhase(AdvanceClock(Began(gameState), delta), delta)} :
                    FrameEnemies(E, delta, s1)
    /\ UNCHANGED arena

\* first setTimeout callback of gameOver: show the black screen
BlackScreen ==
    /\ timers # <<>>
    /\ timers[1].remaining = 0
    /\ timers[1].cb = "black"
    /\ dom' = [dom EXCEPT !.blackScreen = "block"]
    /\ timers' = Tail(timers) \o <<[cb |-> "reset", remaining |-> BLACK_SCREEN_DELAY]>>
    /\ gameState' = Began(gameState)
    /\ UNCHANGED <<elapsed, arena>>

\* second setTimeout callback of gameOver: back to the menu
MenuReset ==
    /\ timers # <<>>
    /\ timers[1].remaining = 0
    /\ timers[1].cb = "reset"
    /\ dom' = [dom EXCEPT !.blackScreen = "none", !.gameOver = "none",
                          !.startScreen = "flex"]
    /\ timers' = Tail(timers)
    /\ gameState' = resetToMenu(Began(gameState))
    /\ UNCHANGED <<elapsed, arena>>

(***************************************************************************)
(* The specification.                                                      *)
(***************************************************************************)
Tick == \E E \in {EnvOf(arena, gameState)} : Frame(E)

Next ==
    \/ \E a \in Arenas : StartGame(a)
    \/ \E w \in WeaponTypes : CardClick(w)
    \/ Fire
    \/ Reload
    \/ \E w \in WeaponTypes : Switch(w)
    \/ Tick
    \/ BlackScreen
    \/ MenuReset

Spec == Init /\ [][Next]_vars

(***************************************************************************)
(* The same program in arenas whose metadata lacks a list: no enemy spawn  *)
(* nodes; no patrol routes and no pickup nodes; patrol routes without      *)
(* nodes.                                                                  *)
(***************************************************************************)
Maps ==
    {[mapMeta EXCEPT !.enemySpawnNodes = 0],
     [mapMeta EXCEPT !.patrolRoutes = 0, !.pickupNodes = 0],
     [mapMeta EXCEPT !.routeLength = 0]}

MapInit ==
    /\ gameState \in {NewGame([mapMeta |-> m]) : m \in Maps}
    /\ dom = [startScreen |-> "flex", gameOver |-> "none", blackScreen |-> "none"]
    /\ timers = <<>>
    /\ elapsed = 0
    /\ arena = "hunt"

MapSpec == MapInit /\ [][Next]_vars

(***************************************************************************)
(* requestAnimationFrame keeps the animation frames coming: a frame that   *)
(* can run does run.                                                       *)
(***************************************************************************)
FairNext ==
    \/ StartGame("drill")
    \/ \E w \in WeaponTypes : CardClick(w)
    \/ Fire
    \/ Reload
    \/ \E w \in WeaponTypes : Switch(w)
    \/ Tick

FairSpec == Init /\ [][FairNext]_vars /\ WF_vars(Tick)

(***************************************************************************)
(* Properties.                                                             *)
(***************************************************************************)
\* the step is an animation frame of delta milliseconds
IsTick == gameState'.ev.delta > 0

Live(g) == g.phase = "COMBAT" /\ g.combatLive

TimedPhases ==
    {"PREP_COUNTDOWN", "INTERMISSION", "ROUND_END", "ARENA_GATE_OPEN", "ARENA_SWAP"}

\* C1: start-game takes IDLE to PREP_COUNTDOWN with a 3 s timer; the phase
\* stays PREP_COUNTDOWN until the frame with which 3 s of frame time have
\* accumulated, which makes it COMBAT, not live; combat stays not live until
\* the frame with which a further 1 s has accumulated, which makes it live
\* with the phase still COMBAT.  No other input changes the phase.
C1_PhaseSequencing ==
    [][/\ (gameState.phase = "IDLE" /\ gameState'.gameStarted)
            => /\ gameState'.phase = "PREP_COUNTDOWN"
               /\ gameState'.phaseTimer = ROUND_COUNTDOWN_SECONDS
               /\ ~gameState'.combatLive
       /\ gameState.phase = "PREP_COUNTDOWN"
            => IF IsTick /\ elapsed + gameState'.ev.delta >= ROUND_COUNTDOWN_SECONDS
                 THEN gameState'.phase = "COMBAT" /\ ~gameState'.combatLive
                 ELSE gameState'.phase = "PREP_COUNTDOWN"
       /\ (gameState.phase = "COMBAT" /\ ~gameState.combatLive)
            => /\ gameState'.phase = "COMBAT"
               /\ gameState'.combatLive
                    <=> (IsTick /\ elapsed + gameState'.ev.delta >= COMBAT_ACTIVATION_DELAY)
      ]_vars

\* the first round's combat has just gone live, 1 s after the countdown ended
C1_Witness ==
    /\ Live(gameState)
    /\ gameState.round = 1
    /\ gameState.ev.delta > 0
    /\ gameState.phaseTimer = 0
    /\ elapsed = 0
    /\ \A k \in 1..Len(gameState.enemies) :
            gameState.enemies[k].state = IF k = 1 THEN "CHASE" ELSE "PATROL"

PhaseChanges ==
    {<<"IDLE", "PREP_COUNTDOWN">>, <<"PREP_COUNTDOWN", "COMBAT">>,
     <<"COMBAT", "INTERMISSION">>, <<"COMBAT", "ROUND_END">>,
     <<"INTERMISSION", "PREP_COUNTDOWN">>, <<"ROUND_END", "ARENA_GATE_OPEN">>,
     <<"ARENA_GATE_OPEN", "ARENA_SWAP">>, <<"ARENA_SWAP", "PREP_COUNTDOWN">>}

\* C2: every change of the phase is one of the eight changes of the cycle or
\* a change to IDLE made by game over; IDLE is left only by start-game; a
\* timed phase (and the not-live part of COMBAT) is left only by a frame
\* that brings its timer to zero or below; COMBAT is left for INTERMISSION
\* or ROUND_END only when combat is live.
C2_PhaseChanges ==
    [][/\ gameState'.phase # gameState.phase
            => /\ \/ <<gameState.phase, gameState'.phase>> \in PhaseChanges
                  \/ gameState'.phase = "IDLE" /\ gameState'.ev.gameOver = 1
               /\ gameState.phase = "IDLE"
                    => dom.startScreen # "none" /\ dom'.startScreen = "none"
               /\ gameState.phase \in TimedPhases
                    => /\ IsTick
                       /\ gameState.phaseTimer - gameState'.ev.delta <= 0
                       /\ gameState'.phase # "IDLE"
               /\ (gameState.phase = "COMBAT"
                        /\ gameState'.phase \in {"INTERMISSION", "ROUND_END"})
                    => gameState.combatLive
       /\ (gameState.phase = "COMBAT" /\ ~gameState.combatLive /\ gameState'.combatLive)
            => IsTick /\ gameState.phaseTimer - gameState'.ev.delta <= 0
      ]_vars

\* the arena swap has ended and the second floor's countdown is running
C2_Witness ==
    /\ gameState.phase = "PREP_COUNTDOWN"
    /\ gameState.floor = 2
    /\ gameState.roundInFloor = 1
    /\ gameState.round = 4

C4_GameOver ==
    [][/\ gameState'.ev.gameOver <= 1
       /\ gameState'.ev.gameOver = 1
            <=> /\ gameState.gameStarted
                /\ gameState.health > 0
                /\ gameState'.ev.playerHits > 0
                /\ gameState'.health <= 0
       /\ gameState'.ev.gameOver = 1
            => /\ IsTick
               /\ Live(gameState)
               /\ ~gameState'.gameStarted
               /\ gameState'.phase = "IDLE"
               /\ ~gameState'.combatLive
               /\ gameState'.bullets = <<>>
               /\ gameState'.enemyBullets = <<>>
               /\ gameState'.activePickups = <<>>
       /\ gameState'.gameStarted => gameState'.health > 0
       /\ ~gameState.gameStarted => gameState'.ev.gameOver = 0
      ]_vars

\* the frame in which the hit that emptied the player's health ended the game
C4_Witness ==
    /\ gameState.ev.gameOver = 1
    /\ gameState.ev.playerHits > 0
    /\ gameState.health <= 0
    /\ ~gameState.gameStarted
\* the start screen is shown: the menu is ready for a start-game
MenuReady ==
    /\ dom.startScreen # "none"
    /\ timers = <<>>

\* the step is the second delayed callback of gameOver
IsMenuReset == dom.startScreen = "none" /\ dom'.startScreen # "none"

C6_StableIteration == ~gameState.ev.fault

\* C7: every enemy in the collection has health above zero, so none below
\* zero is ever kept and none at zero or below survives the frame that
\* brought it there; a frame removes exactly the enemies it killed and runs
\* the kill callback once for each of them.
C7_EnemyRemoval ==
    [][/\ \A k \in 1..Len(gameState'.enemies) : gameState'.enemies[k].health > 0
       /\ IsTick
            => /\ gameState'.ev.killCallbacks = gameState'.ev.kills
               /\ Len(gameState.enemies) > 0
                    => /\ Len(gameState'.enemies) = Len(gameState.enemies) - gameState'.ev.kills
                       /\ Ids(gameState'.enemies) \subseteq Ids(gameState.enemies)
       /\ ~IsTick => gameState'.ev.kills = 0 /\ gameState'.ev.killCallbacks = 0
      ]_vars

\* a frame killed one enemy and left the other wounded
C7_Witness ==
    /\ gameState.ev.kills = 1
    /\ gameState.ev.killCallbacks = 1
    /\ Len(gameState.enemies) = 1
    /\ gameState.enemies[1].health < DROID_HEALTH

\* C8: the AI state of every enemy is PATROL, CHASE, ENGAGE or REPOSITION; a
\* PURSUER is not in PATROL at the end of a frame that leaves combat live;
\* and a PURSUER in REPOSITION stays there or goes to ENGAGE or CHASE.
C8_AIStates ==
    [][\A k \in 1..Len(gameState'.enemies) :
          LET e == gameState'.enemies[k] IN
          /\ e.state \in AIStates
          /\ (e.role = "PURSUER" /\ Live(gameState')) => e.state # "PATROL"
          /\ \A j \in 1..Len(gameState.enemies) :
                (/\ gameState.enemies[j].id = e.id
                 /\ gameState.enemies[j].role = "PURSUER"
                 /\ gameState.enemies[j].state = "REPOSITION")
                    => e.state \in {"REPOSITION", "ENGAGE", "CHASE"}
      ]_vars

\* in live combat the pursuer, long out of sight of the player, is
\* repositioning while the guard walks its patrol route
C8_Witness ==
    /\ Live(gameState)
    /\ Len(gameState.enemies) = 2
    /\ gameState.enemies[1].role = "PURSUER"
    /\ gameState.enemies[1].state = "REPOSITION"
    /\ gameState.enemies[1].lastSeenPlayerAt = 0 - Stale
    /\ gameState.enemies[2].role = "ZONE_GUARD"
    /\ gameState.enemies[2].state = "PATROL"
    /\ gameState.enemies[2].patrolNodeIndex > 0

\* C9: the current ammo is at least 0 and at most the magazine capacity of
\* the active weapon.
C9_AmmoBounds ==
    /\ gameState.ammo >= 0
    /\ gameState.ammo <= weapons[gameState.weaponType].maxAmmo

\* the shotgun is active and has been fired, after the rifle had been fired
C9_Witness ==
    /\ gameState.gameStarted
    /\ gameState.weaponType = "shotgun"
    /\ gameState.ammo < weapons["shotgun"].maxAmmo
    /\ gameState.weaponAmmo["rifle"] < weapons["rifle"].maxAmmo
    /\ gameState.weaponAmmo["shotgun"] = gameState.ammo

\* the conditions under which a fire request is accepted
Acceptable(g) ==
    /\ g.gameStarted
    /\ g.phase = "COMBAT"
    /\ g.combatLive
    /\ g.ammo > 0
    /\ currentTime - g.lastFireTime >= weapons[g.weaponType].fireRate

\* C10: a fire request is accepted only if the game is started, the phase is
\* COMBAT, combat is live, ammo is above zero and the fire-rate interval of
\* the active weapon has elapsed since lastFireTime; an accepted request
\* takes one round; a rejected request leaves ammo, the per-weapon ammo,
\* lastFireTime and the player projectiles unchanged and raises no error.
C10_FireAcceptance ==
    [][Fire =>
        /\ gameState'.ev.accepted <=> Acceptable(gameState)
        /\ ~gameState'.ev.fault
        /\ IF Acceptable(gameState)
             THEN /\ gameState'.ammo = gameState.ammo - 1
                  /\ Len(gameState'.bullets) > Len(gameState.bullets)
             ELSE /\ gameState'.ammo = gameState.ammo
                  /\ gameState'.weaponAmmo = gameState.weaponAmmo
                  /\ gameState'.lastFireTime = gameState.lastFireTime
                  /\ gameState'.bullets = gameState.bullets
      ]_vars

\* the request that emptied the magazine was accepted in live combat; the
\* next one is rejected as empty and as rate-limited
C10_Witness ==
    /\ gameState.ev.accepted
    /\ gameState.ammo = 0
    /\ gameState.lastFireTime = currentTime
    /\ Live(gameState)

\* C11: an accepted fire request takes exactly one round whatever the number
\* of pellets, stores the new count as the active weapon's ammo, sets
\* lastFireTime to the current time, and appends to the player projectiles,
\* leaving those in flight as they were, exactly 8 projectiles for the
\* shotgun and 1 for every other weapon, each with the active weapon's damage
\* and range and a travelled distance of 0.
C11_FireEffect ==
    [][(Fire /\ gameState'.ev.accepted) =>
        LET w == gameState.weaponType
            n == IF w = "shotgun" THEN 8 ELSE 1
            before == Len(gameState.bullets)
        IN /\ gameState'.weaponType = w
           /\ gameState'.ammo = gameState.ammo - 1
           /\ gameState'.weaponAmmo = [gameState.weaponAmmo EXCEPT ![w] = gameState.ammo - 1]
           /\ gameState'.lastFireTime = currentTime
           /\ Len(gameState'.bullets) = before + n
           /\ SubSeq(gameState'.bullets, 1, before) = gameState.bullets
           /\ \A i \in (before + 1)..(before + n) :
                /\ gameState'.bullets[i].damage = weapons[w].damage
                /\ gameState'.bullets[i].range = weapons[w].range
                /\ gameState'.bullets[i].distance = 0
      ]_vars

\* the shotgun has just been fired: eight pellets have left the muzzle for one round
C11_Witness ==
    /\ gameState.ev.accepted
    /\ gameState.weaponType = "shotgun"
    /\ gameState.ammo = weapons["shotgun"].maxAmmo - 1
    /\ Len(gameState.bullets) = 8
    /\ \A i \in 1..8 : gameState.bullets[i].distance = 0

\* C12: a reload in a started game sets ammo, and the stored ammo of the
\* active weapon, to exactly the magazine capacity in one step and leaves the
\* stored ammo of the other weapons alone; when ammo already equals the
\* capacity it changes neither; a second reload changes nothing the first
\* one left.
C12_ReloadIdempotent ==
    [][(Reload /\ gameState.gameStarted) =>
        LET w == gameState.weaponType
            capacity == weapons[w].maxAmmo
        IN /\ gameState'.ammo = capacity
           /\ gameState'.weaponAmmo = [gameState.weaponAmmo EXCEPT ![w] = capacity]
           /\ gameState.ammo = capacity
                => /\ gameState'.ammo = gameState.ammo
                   /\ gameState'.weaponAmmo = gameState.weaponAmmo
           /\ reloadCurrentWeapon(gameState') = gameState'
           /\ reloadCurrentWeapon(reloadCurrentWeapon(Began(gameState))) = gameState'
      ]_vars

\* the rifle, the only weapon of the session, has a full magazine although
\* it was fired in this very instant: it has been reloaded since
C12_Witness ==
    /\ Live(gameState)
    /\ gameState.unlockedWeapons = {"rifle"}
    /\ gameState.weaponType = "rifle"
    /\ gameState.lastFireTime = currentTime
    /\ gameState.ammo = weapons["rifle"].maxAmmo
    /\ gameState.weaponAmmo["rifle"] = weapons["rifle"].maxAmmo
    /\ gameState.bullets # <<>>

\* what a weapon-switch request must not touch when it is rejected
Arsenal(g) == <<g.weaponType, g.ammo, g.maxAmmo, g.weaponAmmo, g.unlockedWeapons>>

\* C13: a weapon-switch request for a weapon that is not in the unlocked set
\* is rejected with the locked-weapon notice and changes neither the active
\* weapon nor ammo, maxAmmo, the per-weapon ammo or the unlocked set; no
\* step makes a weapon active that is not unlocked.
C13_LockedSwitch ==
    [][/\ \A w \in WeaponTypes \ gameState.unlockedWeapons :
            (Switch(w) /\ gameState.gameStarted)
                => /\ gameState'.ev.notice = "locked"
                   /\ Arsenal(gameState') = Arsenal(gameState)
                   /\ [gameState' EXCEPT !.ev = NoEvents] = [gameState EXCEPT !.ev = NoEvents]
       /\ gameState'.ev.notice = "locked" => Arsenal(gameState') = Arsenal(gameState)
       /\ gameState'.gameStarted => gameState'.weaponType \in gameState'.unlockedWeapons
      ]_vars

\* with the shotgun unlocked and active, the request for the sniper was rejected
C13_Witness ==
    /\ gameState.gameStarted
    /\ gameState.ev.notice = "locked"
    /\ gameState.unlockedWeapons = {"rifle", "shotgun"}
    /\ gameState.weaponType = "shotgun"
    /\ gameState.ammo = gameState.weaponAmmo["shotgun"]

\* the step is a start-game
IsStart == dom.startScreen # "none" /\ dom'.startScreen = "none"

\* C14: within a session the stored ammo of every weapon other than the
\* active one is left alone by every step, fire and reload included; the
\* current ammo is the stored ammo of the active weapon; the active weapon
\* changes only by a switch request, which makes the stored ammo of the
\* weapon it selects the current ammo.  So a weapon left with a rounds has a
\* rounds when the player switches back to it.
C14_AmmoPerWeapon ==
    [][/\ (gameState.gameStarted /\ ~IsStart)
            => /\ \A w \in WeaponTypes \ {gameState.weaponType} :
                    gameState'.weaponAmmo[w] = gameState.weaponAmmo[w]
               /\ gameState'.weaponType # gameState.weaponType
                    => /\ gameState'.ev.notice = "switched"
                       /\ gameState'.ammo = gameState.weaponAmmo[gameState'.weaponType]
                       /\ gameState'.weaponAmmo = gameState.weaponAmmo
       /\ gameState'.gameStarted
            => gameState'.ammo = gameState'.weaponAmmo[gameState'.weaponType]
      ]_vars

\* the player is back on the rifle with the rounds it was left with, after
\* firing the shotgun in between
C14_Witness ==
    /\ gameState.gameStarted
    /\ gameState.ev.notice = "switched"
    /\ gameState.weaponType = "rifle"
    /\ gameState.ammo = gameState.weaponAmmo["rifle"]
    /\ gameState.ammo < weapons["rifle"].maxAmmo
    /\ gameState.weaponAmmo["shotgun"] < weapons["shotgun"].maxAmmo

\* ticks of advancement a projectile has made, and makes within its range
Ticks(b) == b.distance \div b.speed
RangeTicks(b) == b.range \div b.speed

\* nothing is in the way of the player's projectiles
OpenRange == ~EnvOf(arena, gameState).targets /\ EnvOf(arena, gameState).flight = 0

\* the player projectiles of g after one more tick of advancement,
\* removing those that have travelled farther than their range
Flown(bullets) ==
    SelectSeq([i \in 1..Len(bullets) |->
                  [bullets[i] EXCEPT !.distance = @ + bullets[i].speed]],
              LAMBDA b : b.distance <= b.range)

\* C15 (as stated): a player projectile with range 100 and speed 1.0 has been
\* removed once it has advanced 100 ticks: none in the collection has
\* advanced range/speed ticks.
C15_AsStated ==
    \A i \in 1..Len(gameState.bullets) :
        Ticks(gameState.bullets[i]) < RangeTicks(gameState.bullets[i])

\* C15 (amended): a player projectile that hits no enemy and no wall is
\* removed by the tick that takes its travelled distance above its range:
\* with range 100 and speed 1.0 it is still in the collection after 100 ticks
\* (distance 100) and is removed by tick 101.  No projectile in the
\* collection has travelled farther than its range.
C15_Lifetime ==
    [][/\ \A i \in 1..Len(gameState'.bullets) :
            Ticks(gameState'.bullets[i]) <= RangeTicks(gameState'.bullets[i])
       /\ (IsTick /\ OpenRange /\ gameState.gameStarted)
            => /\ gameState'.bullets = Flown(gameState.bullets)
               /\ \A i \in 1..Len(gameState.bullets) :
                    LET b == gameState.bullets[i] IN
                    /\ Ticks(b) < RangeTicks(b) => Len(gameState'.bullets) >= i
                    /\ Ticks(b) = RangeTicks(b) => Len(gameState'.bullets) < i
      ]_vars

\* the rifle projectile (range 100, speed 1.0) has advanced 100 ticks and is
\* still in flight
C15_Witness ==
    /\ OpenRange
    /\ Len(gameState.bullets) = 1
    /\ RangeTicks(gameState.bullets[1]) = 100
    /\ Ticks(gameState.bullets[1]) = 100
    /\ gameState.ev.delta > 0

\* damage the first k lines of the hit log apply to the enemy id
RECURSIVE DamageTo(_, _, _)
DamageTo(log, k, id) ==
    IF k = 0 THEN 0
    ELSE (IF log[k].id = id THEN log[k].damage ELSE 0) + DamageTo(log, k - 1, id)

\* C16: the enemies are kept in the order they were created in.  In a frame
\* of live combat every player projectile applies damage at most once: the
\* hits of the frame are no more than its projectiles, and each projectile
\* that hit is removed in that frame; a hit goes to the first of the living
\* enemies within the hit radius in collection order, and to that one only:
\* every enemy loses exactly the damage values of the hits that went to it,
\* and is removed iff that takes its health to zero or below.
C16_SingleHit ==
    [][/\ \A i, j \in 1..Len(gameState'.enemies) :
            i < j => gameState'.enemies[i].id < gameState'.enemies[j].id
       /\ (IsTick /\ Live(gameState) /\ gameState.enemies # <<>>)
            => LET log == gameState'.ev.struck IN
               /\ Len(log) <= Len(gameState.bullets)
               /\ Len(gameState'.bullets) <= Len(gameState.bullets) - Len(log)
               /\ \A k \in 1..Len(log) :
                    /\ log[k].id \in log[k].near
                    /\ \A other \in log[k].near : log[k].id <= other
               /\ \A k \in 1..Len(gameState.enemies) :
                    LET e == gameState.enemies[k]
                        lost == DamageTo(log, Len(log), e.id)
                    IN IF e.id \in Ids(gameState'.enemies)
                         THEN /\ lost < e.health
                              /\ \E m \in 1..Len(gameState'.enemies) :
                                    /\ gameState'.enemies[m].id = e.id
                                    /\ gameState'.enemies[m].health = e.health - lost
                         ELSE lost >= e.health
      ]_vars

\* the eight pellets of a shotgun volley had both droids within their hit
\* radius: each of them hit the first droid, and the second is unharmed
C16_Witness ==
    /\ Len(gameState.ev.struck) = 8
    /\ \A k \in 1..8 : /\ Cardinality(gameState.ev.struck[k].near) = 2
                       /\ gameState.ev.struck[k].id = 0
    /\ Len(gameState.enemies) = 2
    /\ gameState.enemies[1].health = DROID_HEALTH - 8 * weapons["shotgun"].damage
    /\ gameState.enemies[2].health = DROID_HEALTH
    /\ gameState.bullets = <<>>

\* gameState as updatePhase leaves it in the frame that begins in this state
AfterPhase(delta) == updatePhase(AdvanceClock(Began(gameState), delta), delta)

\* C17: in every frame the phase is evaluated before the enemies and the
\* projectiles: no enemy projectile is created and no player hit is applied
\* in a frame whose phase after updatePhase is not COMBAT with combat live,
\* and none outside a frame; the player's health decreases only by such a
\* hit; and whenever the enemy-projectile collection is not empty the phase
\* is COMBAT and combat is live.
C17_LiveCombatOnly ==
    [][/\ gameState'.enemyBullets # <<>> => Live(gameState')
       /\ (gameState'.ev.enemyShots > 0 \/ gameState'.ev.playerHits > 0)
            => /\ IsTick
               /\ gameState.gameStarted
               /\ Live(AfterPhase(gameState'.ev.delta))
       /\ gameState'.health < gameState.health => gameState'.ev.playerHits > 0
      ]_vars

\* the last droid fired in the frame in which it fell: the intermission
\* began with its projectile, and those in flight before, cleared
C17_Witness ==
    /\ gameState.phase = "INTERMISSION"
    /\ gameState.ev.enterIntermission = 1
    /\ gameState.ev.enemyShots > 0
    /\ gameState.ev.kills = 1
    /\ gameState.enemyBullets = <<>>
    /\ gameState.health < FULL_HEALTH

\* the frame evaluated the AI of the enemy at index k of the collection
Evaluated(k) ==
    /\ IsTick
    /\ k \in 1..Len(gameState.enemies)
    /\ Len(gameState'.ev.sight) = Len(gameState.enemies)
    /\ gameState.enemies[k].id \in Ids(gameState'.enemies)

\* that enemy at the end of the frame
After(k) ==
    LET m == CHOOSE m \in 1..Len(gameState'.enemies) :
                 gameState'.enemies[m].id = gameState.enemies[k].id
    IN gameState'.enemies[m]

\* the state in which the frame finds the enemy once the detection test and
\* the rule for pursuers have been applied
EvaluatedIn(k) ==
    LET e == gameState.enemies[k]
        o == gameState'.ev.sight[k]
    IN IF e.state = "PATROL"
            /\ (e.role = "PURSUER" \/ (o.distance < 220 /\ o.hasLOS))
         THEN "CHASE" ELSE e.state

\* milliseconds since the enemy last saw the player, at its evaluation
LostFor(k) ==
    IF gameState'.ev.sight[k].hasLOS THEN 0
    ELSE 0 - Shift(gameState.enemies[k].lastSeenPlayerAt, gameState'.ev.delta)

\* C18 (as stated): in live combat a ZONE_GUARD in PATROL at distance 10 from
\* the player with line of sight is in CHASE at the end of the next
\* evaluated frame; at distance 30 it stays in PATROL.
C18_AsStated ==
    [][\A k \in 1..Len(gameState.enemies) :
          (/\ Evaluated(k)
           /\ gameState.enemies[k].role = "ZONE_GUARD"
           /\ gameState.enemies[k].state = "PATROL"
           /\ gameState'.ev.sight[k].hasLOS)
            => /\ gameState'.ev.sight[k].distance = 100 => After(k).state = "CHASE"
               /\ gameState'.ev.sight[k].distance = 300 => After(k).state = "PATROL"
      ]_vars

\* C18 (amended): in live combat a ZONE_GUARD in PATROL leaves PATROL in the
\* next evaluated frame iff it is closer than 22 to the player with line of
\* sight.  It is set to CHASE and evaluated as a chasing enemy in that same
\* frame: at distance 10, which is within 95% of the weapon range of 15, it
\* is in ENGAGE at the end of the frame; farther away (16) it ends the frame
\* in CHASE, or in REPOSITION if its chase move was blocked.  At distance 30
\* it stays in PATROL.
C18_Detection ==
    [][\A k \in 1..Len(gameState.enemies) :
          (/\ Evaluated(k)
           /\ gameState.enemies[k].role = "ZONE_GUARD"
           /\ gameState.enemies[k].state = "PATROL")
            => LET o == gameState'.ev.sight[k] IN
               /\ After(k).state # "PATROL" <=> (o.distance < 220 /\ o.hasLOS)
               /\ (o.hasLOS /\ o.distance = 100) => After(k).state = "ENGAGE"
               /\ (o.hasLOS /\ o.distance = 160)
                    => After(k).state = IF o.blocked THEN "REPOSITION" ELSE "CHASE"
               /\ o.distance = 300 => After(k).state = "PATROL"
      ]_vars

\* the guard, on its patrol until this frame, saw the player at distance 10
\* and is engaging
C18_Witness ==
    /\ Live(gameState)
    /\ Len(gameState.enemies) = 2
    /\ Len(gameState.ev.sight) = 2
    /\ gameState.ev.sight[2].distance = 100
    /\ gameState.ev.sight[2].hasLOS
    /\ gameState.enemies[2].role = "ZONE_GUARD"
    /\ gameState.enemies[2].state = "ENGAGE"
    /\ gameState.enemies[2].lastShot = 0 - Stale
    /\ gameState.enemies[2].patrolNodeIndex > 0

\* C19: in a frame of live combat an enemy evaluated in CHASE ends the frame
\* in ENGAGE iff its distance is at most 95% of the weapon range and it has
\* line of sight; otherwise it ends in REPOSITION, with a reposition target
\* set, iff it has no line of sight and more than 1800 ms have passed since
\* it last saw the player, or its chase move of this frame was blocked; in
\* all other cases it stays in CHASE.
C19_ChaseExits ==
    [][\A k \in 1..Len(gameState.enemies) :
          (Evaluated(k) /\ EvaluatedIn(k) = "CHASE")
            => LET o == gameState'.ev.sight[k]
                   engage == o.distance * 100 <= ENEMY_RANGE * 95 /\ o.hasLOS
                   reposition == (~o.hasLOS /\ LostFor(k) > 1800) \/ o.blocked
               IN /\ After(k).state = "ENGAGE" <=> engage
                  /\ ~engage => (After(k).state = "REPOSITION" <=> reposition)
                  /\ (~engage /\ ~reposition) => After(k).state = "CHASE"
                  /\ After(k).state = "REPOSITION" => After(k).repositionTarget # "null"
                  /\ After(k).state \in {"ENGAGE", "CHASE", "REPOSITION"}
      ]_vars

\* the pursuer chased the player, in sight but just beyond 95% of the weapon
\* range, into an obstacle and is repositioning
C19_Witness ==
    /\ Live(gameState)
    /\ Len(gameState.ev.sight) = Len(gameState.enemies)
    /\ Len(gameState.enemies) > 0
    /\ gameState.ev.sight[1].distance = 145
    /\ gameState.ev.sight[1].hasLOS
    /\ gameState.ev.sight[1].blocked
    /\ gameState.enemies[1].role = "PURSUER"
    /\ gameState.enemies[1].state = "REPOSITION"
    /\ gameState.enemies[1].repositionTarget # "null"
    /\ gameState.enemies[1].lastSeenPlayerAt = currentTime

\* C20: in a frame of live combat an enemy evaluated in ENGAGE with line of
\* sight stays in ENGAGE; without line of sight it ends the frame in
\* REPOSITION, with a reposition target set, when more than 1800 ms have
\* passed since it last saw the player, in CHASE when more than 1200 ms and at
\* most 1800 ms have passed, and in ENGAGE when at most 1200 ms have passed.
C20_EngageLost ==
    [][\A k \in 1..Len(gameState.enemies) :
          (Evaluated(k) /\ EvaluatedIn(k) = "ENGAGE")
            => LET o == gameState'.ev.sight[k]
                   lost == LostFor(k)
                   expected == IF o.hasLOS THEN "ENGAGE"
                               ELSE IF lost > 1800 THEN "REPOSITION"
                               ELSE IF lost > 1200 THEN "CHASE"
                               ELSE "ENGAGE"
               IN /\ After(k).state = expected
                  /\ After(k).state = "REPOSITION" => After(k).repositionTarget # "null"
      ]_vars

\* the guard, engaged until this frame, has not seen the player for 1500 ms
\* and is chasing again
C20_Witness ==
    /\ Live(gameState)
    /\ Len(gameState.enemies) = 2
    /\ Len(gameState.ev.sight) = 2
    /\ ~gameState.ev.sight[2].hasLOS
    /\ gameState.enemies[2].state = "CHASE"
    /\ gameState.enemies[2].lastSeenPlayerAt = 0 - 1500
    /\ gameState.enemies[2].lastShot > 0 - Stale

\* updateReposition finds the enemy arrived at its reposition target, or
\* without one
Reached(k) == updateReposition(gameState.enemies[k], gameState'.ev.sight[k])

\* C21: in a frame of live combat an enemy evaluated in REPOSITION ends the
\* frame in ENGAGE whenever its distance is at most the weapon range and it
\* has line of sight, whether or not it has reached its target; without that
\* condition, if it has reached its target (or has none) a ZONE_GUARD ends in
\* PATROL and any other role in CHASE, and otherwise it stays in REPOSITION
\* with its target kept.  Whenever it leaves REPOSITION its reposition target
\* is null.
C21_RepositionExits ==
    [][\A k \in 1..Len(gameState.enemies) :
          (Evaluated(k) /\ EvaluatedIn(k) = "REPOSITION")
            => LET e == gameState.enemies[k]
                   o == gameState'.ev.sight[k]
                   engage == o.distance <= ENEMY_RANGE /\ o.hasLOS
                   expected == IF engage THEN "ENGAGE"
                               ELSE IF Reached(k)
                                 THEN IF e.role = "ZONE_GUARD" THEN "PATROL" ELSE "CHASE"
                               ELSE "REPOSITION"
               IN /\ After(k).state = expected
                  /\ After(k).state # "REPOSITION" => After(k).repositionTarget = "null"
                  /\ After(k).state = "REPOSITION"
                        => After(k).repositionTarget = e.repositionTarget
      ]_vars

\* the guard, on its way to its reposition target, saw the player within
\* weapon range and is engaging, its target dropped
C21_Witness ==
    /\ Live(gameState)
    /\ Len(gameState.enemies) = 2
    /\ Len(gameState.ev.sight) = 2
    /\ gameState.ev.sight[2].distance = 145
    /\ gameState.ev.sight[2].hasLOS
    /\ gameState.ev.sight[2].toTarget = 115
    /\ gameState.enemies[2].role = "ZONE_GUARD"
    /\ gameState.enemies[2].state = "ENGAGE"
    /\ gameState.enemies[2].repositionTarget = "null"
    /\ gameState.enemies[2].lastShot = 0 - Stale

\* C22: an enemy in REPOSITION is treated as having reached its reposition
\* target exactly when its horizontal distance to the target is within 1.2
\* units: evaluated with a target and without the player in range and in
\* sight, it leaves REPOSITION at distance 1.05 and at 1.15 and stays in
\* REPOSITION at 1.25.
C22_ArrivalRadius ==
    [][\A k \in 1..Len(gameState.enemies) :
          LET e == gameState.enemies[k]
              o == gameState'.ev.sight[k]
          IN (/\ Evaluated(k)
              /\ EvaluatedIn(k) = "REPOSITION"
              /\ e.repositionTarget # "null"
              /\ ~(o.distance <= ENEMY_RANGE /\ o.hasLOS))
                => (After(k).state # "REPOSITION" <=> o.toTarget <= 120)
      ]_vars

\* the frame evaluated the AI of its enemies
Sighted ==
    /\ IsTick
    /\ gameState.enemies # <<>>
    /\ Len(gameState'.ev.sight) = Len(gameState.enemies)

\* the enemy at index k has a shot in this frame: it is evaluated in ENGAGE
\* with line of sight at a distance below the weapon range plus 2
HasShot(k) ==
    /\ EvaluatedIn(k) = "ENGAGE"
    /\ gameState'.ev.sight[k].hasLOS
    /\ gameState'.ev.sight[k].distance < ENEMY_RANGE + 20

\* milliseconds since the enemy at index k last fired, at its evaluation
SinceShot(k) == 0 - Shift(gameState.enemies[k].lastShot, gameState'.ev.delta)

\* C23: enemy projectiles are created only by a frame that evaluates the AI
\* in live combat, one for each enemy that is evaluated in ENGAGE with line of
\* sight at a distance below range + 2 and whose last shot is at least the
\* fire-rate interval of 1000 ms old, and none for any other enemy; the shot
\* sets that enemy's last-fire timestamp to the current time and leaves
\* every other enemy's alone, so two consecutive shots of one enemy are at
\* least 1000 ms apart whatever the other enemies fire.
C23_EnemyFire ==
    [][/\ ~Sighted => gameState'.ev.enemyShots = 0
       /\ Sighted
            => /\ Live(AfterPhase(gameState'.ev.delta))
               /\ gameState'.ev.enemyShots =
                    Cardinality({k \in 1..Len(gameState.enemies) :
                                    HasShot(k) /\ SinceShot(k) >= 1000})
               /\ \A k \in 1..Len(gameState.enemies) :
                    Evaluated(k)
                        => IF HasShot(k) /\ SinceShot(k) >= 1000
                             THEN After(k).lastShot = currentTime
                             ELSE /\ After(k).lastShot < currentTime
                                  /\ After(k).lastShot =
                                        Shift(gameState.enemies[k].lastShot,
                                              gameState'.ev.delta)
      ]_vars

\* both droids are engaging the player in sight: the guard has just fired
\* while the pursuer, which fired 500 ms ago, has not
C23_Witness ==
    /\ Live(gameState)
    /\ Len(gameState.enemies) = 2
    /\ Len(gameState.ev.sight) = 2
    /\ gameState.ev.sight[1].hasLOS
    /\ gameState.ev.enemyShots = 1
    /\ gameState.enemies[1].state = "ENGAGE"
    /\ gameState.enemies[1].lastShot = 0 - 500
    /\ gameState.enemies[2].state = "ENGAGE"
    /\ gameState.enemies[2].lastShot = currentTime

\* the player stands in the open at distance 10
InSight == [Unobserved EXCEPT !.distance = 100, !.hasLOS = TRUE]

\* an enemy as a frame without live combat leaves it
Frozen(e) == IF e.role = "ZONE_GUARD" THEN [e EXCEPT !.state = "PATROL"] ELSE e

\* C24: in a frame in which combat is not live when the enemies are updated
\* (the phase is not COMBAT or combatLive is false), no enemy is evaluated
\* and no enemy projectile is created, and every enemy the frame does not
\* kill keeps its last-fire and last-seen timestamps, patrol node index,
\* reposition target and AI state, except that a ZONE_GUARD is in PATROL.
\* Called without live combat on any enemy the game reaches, with the player
\* in sight or not, the update sets a ZONE_GUARD to PATROL, changes nothing
\* else and creates no projectile.
C24_FrozenOutsideCombat ==
    [][/\ (IsTick /\ gameState.gameStarted /\ ~Live(AfterPhase(gameState'.ev.delta)))
            => LET before == AfterPhase(gameState'.ev.delta).enemies IN
               /\ gameState'.ev.sight = <<>>
               /\ gameState'.ev.enemyShots = 0
               /\ gameState'.enemyBullets = <<>>
               /\ gameState'.ev.kills = 0
                    => [k \in 1..Len(gameState'.enemies) |->
                            [gameState'.enemies[k] EXCEPT !.health = 0]]
                       = [k \in 1..Len(before) |->
                            [Frozen(before[k]) EXCEPT !.health = 0]]
       /\ \A k \in 1..Len(gameState.enemies) :
            \A o \in {Unobserved, InSight} :
                EvaluateEnemy(gameState.enemies[k], o, enemyConfig(gameState), FALSE)
                    = <<Frozen(gameState.enemies[k]), <<>>>>
      ]_vars

\* a frame of the activation delay: the phase is COMBAT, combat is not live
\* yet, and the pursuer and the guard stand as they were spawned
C24_Witness ==
    /\ gameState.phase = "COMBAT"
    /\ ~gameState.combatLive
    /\ gameState.ev.delta > 0
    /\ gameState.phaseTimer < COMBAT_ACTIVATION_DELAY
    /\ Len(gameState.enemies) = 2
    /\ gameState.enemies[2].role = "ZONE_GUARD"
    /\ gameState.enemies[1].state = "CHASE"
    /\ gameState.enemies[1].repositionTarget = "null"
    /\ gameState.enemies[2].state = "PATROL"
    /\ gameState.enemies[2].patrolNodeIndex = 0

Counters(g) == <<g.floor, g.round, g.roundInFloor>>

\* the frame brings the timer of the given phase to zero or below
Expires(phase) ==
    /\ IsTick
    /\ gameState.gameStarted
    /\ gameState.phase = phase
    /\ gameState.phaseTimer - gameState'.ev.delta <= 0

\* the droids of a round as they are spawned: none has fired or seen the player
FreshEnemies(g) ==
    /\ g.enemies # <<>>
    /\ \A k \in 1..Len(g.enemies) :
            /\ g.enemies[k].id = k - 1
            /\ g.enemies[k].lastShot = 0 - Stale
            /\ g.enemies[k].lastSeenPlayerAt = 0 - Stale
            /\ g.enemies[k].state = IF g.enemies[k].role = "PURSUER" THEN "CHASE" ELSE "PATROL"

\* the next round's countdown has been entered
CountdownEntered(g) ==
    /\ g.phase = "PREP_COUNTDOWN"
    /\ g.phaseTimer = 3000
    /\ ~g.combatLive

EntersCountdown ==
    /\ gameState'.phase = "PREP_COUNTDOWN"
    /\ gameState.phase # "PREP_COUNTDOWN" \/ IsStart

\* 5 + floor(globalRound * 1.5) + floor((floorIndex - 1) * 0.8)
EnemyCount(globalRound, floorIndex) ==
    5 + ((globalRound * 15) \div 10) + (((floorIndex - 1) * 8) \div 10)

FloorsChecked == 1..8

\* base health 100 scaled by 1 + 0.15 * (f - 1), floored, and at least 25
StartHealth(f) == Max(25, (100 * (100 + 15 * (f - 1))) \div 100)

\* the droids as the spawn of this step left them: in a frame, before the
\* projectiles are updated
AsSpawned ==
    IF IsTick THEN AfterPhase(gameState'.ev.delta).enemies ELSE gameState'.enemies

\* C27: every enemy spawned on floor f starts with health equal to its base
\* health of 100 scaled by 1 + 0.15 * (f - 1) and floored to an integer, and
\* never below 25: 100 on floor 1, 115 on floor 2, and 145 on floor 4, where
\* the scale is 1.45.  No enemy ever has more health than that.
C27_HealthScaling ==
    [][/\ gameState'.ev.spawned > 0
            => /\ gameState'.enemies # <<>>
               /\ \A k \in 1..Len(AsSpawned) :
                    /\ AsSpawned[k].health = StartHealth(gameState'.floor)
                    /\ AsSpawned[k].health >= 25
               /\ \A f \in FloorsChecked :
                    /\ ScaledHealth(DROID_HEALTH, getLevelConfig(f).enemyScaling.health)
                            = StartHealth(f)
                    /\ ScaledHealth(1, getLevelConfig(f).enemyScaling.health) = 25
               /\ getLevelConfig(4).enemyScaling.health = 145
               /\ ScaledHealth(DROID_HEALTH, getLevelConfig(4).enemyScaling.health) = 145
       /\ \A k \in 1..Len(gameState'.enemies) :
            gameState'.enemies[k].health <= StartHealth(gameState'.floor)
      ]_vars

\* the droids of the second floor have just been spawned with health 115
C27_Witness ==
    /\ gameState.ev.spawned > 0
    /\ gameState.floor = 2
    /\ gameState.levelConfig.enemyScaling.health = 115
    /\ gameState.enemies # <<>>
    /\ \A k \in 1..Len(gameState.enemies) : gameState.enemies[k].health = 115

\* the pickup types in a sequence
Types(seq) == {seq[i] : i \in 1..Len(seq)}

\* C28: the frame that enters INTERMISSION after global round r spawns a
\* pickup set with exactly one health pickup, with an unlock_shotgun pickup
\* iff r >= 2 and the shotgun is not yet unlocked, and with an unlock_sniper
\* pickup iff r >= 4 and the sniper is not yet unlocked, and nothing else; what
\* it leaves active are the spawned pickups it did not collect.  No other
\* step spawns a pickup.  A start-game leaves only the rifle unlocked.
C28_PickupGating ==
    [][/\ gameState'.ev.enterIntermission = 1
            => LET offered == gameState'.ev.offered
                   r == gameState.round
               IN /\ Len(offered) = Cardinality(Types(offered))
                  /\ Types(offered) \subseteq PickupKinds
                  /\ "health" \in Types(offered)
                  /\ "unlock_shotgun" \in Types(offered)
                        <=> (r >= 2 /\ "shotgun" \notin gameState.unlockedWeapons)
                  /\ "unlock_sniper" \in Types(offered)
                        <=> (r >= 4 /\ "sniper" \notin gameState.unlockedWeapons)
                  /\ Types(gameState'.activePickups)
                        = Types(offered) \ Types(gameState'.ev.collected)
                  /\ Len(gameState'.activePickups) + Len(gameState'.ev.collected)
                        = Len(offered)
       /\ gameState'.ev.enterIntermission = 0
            => /\ gameState'.ev.offered = <<>>
               /\ Types(gameState'.activePickups) \subseteq Types(gameState.activePickups)
       /\ IsStart => gameState'.unlockedWeapons = {"rifle"}
      ]_vars

\* the intermission after round 4 begins with the shotgun unlocked: a health
\* pickup and the sniper unlock are offered, the shotgun unlock is not
C28_Witness ==
    /\ gameState.phase = "INTERMISSION"
    /\ gameState.ev.enterIntermission = 1
    /\ gameState.round = 4
    /\ gameState.ev.offered = <<"health", "unlock_sniper">>
    /\ "shotgun" \in gameState.unlockedWeapons

\* the weapons the unlock pickups of a sequence of collected types stand for
Unlocks(collected) ==
    {w \in {"shotgun", "sniper"} :
        \E i \in 1..Len(collected) :
            collected[i] = (IF w = "shotgun" THEN "unlock_shotgun" ELSE "unlock_sniper")}

\* C29: a frame adds to the unlocked set exactly the weapons whose unlock
\* pickups it collected, and pickups are collected by frames only.  In a
\* started game no step removes a weapon from the unlocked set, so a weapon
\* once unlocked stays unlocked across rounds and floors, and a switch
\* request for it is never rejected as locked; the set shrinks only by the
\* menu reset after game over or by the next start-game, which leave the
\* rifle.
C29_UnlocksPersist ==
    [][/\ IsTick
            => gameState'.unlockedWeapons
                 = gameState.unlockedWeapons \cup Unlocks(gameState'.ev.collected)
       /\ ~IsTick => gameState'.ev.collected = <<>>
       /\ (gameState.gameStarted /\ ~IsStart)
            => gameState.unlockedWeapons \subseteq gameState'.unlockedWeapons
       /\ ~(gameState.unlockedWeapons \subseteq gameState'.unlockedWeapons)
            => /\ IsMenuReset \/ IsStart
               /\ gameState'.unlockedWeapons = {"rifle"}
       /\ \A w \in gameState.unlockedWeapons :
            (Switch(w) /\ gameState.gameStarted)
                => /\ gameState'.ev.notice # "locked"
                   /\ gameState'.weaponType = w
      ]_vars

\* on the second floor the sniper unlock has just been collected, the
\* shotgun, unlocked on the first floor, still being unlocked
C29_Witness ==
    /\ gameState.gameStarted
    /\ gameState.floor = 2
    /\ Unlocks(gameState.ev.collected) = {"sniper"}
    /\ gameState.unlockedWeapons = {"rifle", "shotgun", "sniper"}

\* the frame collected a health pickup
HealthCollected ==
    \E i \in 1..Len(gameState'.ev.collected) : gameState'.ev.collected[i] = "health"

\* C30: the frame that collects a health pickup sets the player's health to
\* min(100, health + 35): it restores 35 points, or what is missing to 100 when
\* that is less; the player's health increases in no other step of a started
\* game and never exceeds 100.
C30_HealthPickup ==
    [][/\ HealthCollected
            => /\ gameState'.ev.playerHits = 0
               /\ gameState'.health = Min(1000, gameState.health + 350)
               /\ gameState'.health <= gameState.health + 350
       /\ (gameState.gameStarted /\ gameState'.health > gameState.health)
            => HealthCollected
       /\ gameState'.health <= 1000
      ]_vars

\* the player, hit more than seven times in the round, has collected the
\* health pickup of the intermission and is still below full health
C30_Witness ==
    /\ gameState.phase = "INTERMISSION"
    /\ gameState.ev.collected = <<"health">>
    /\ gameState.health < FULL_HEALTH
    /\ gameState.health >= HEAL_AMOUNT
    /\ gameState.activePickups = <<>>

(***************************************************************************)
(* C31: missing or empty map metadata never causes a fault: spawning the   *)
(* enemies of a round on an arena without spawn nodes completes, and so    *)
(* does every handler.  Refuted: createDroids throws on the first droid.   *)
(***************************************************************************)
C31_NoFault == ~gameState.ev.thrown

\* the parts of C31 that hold: without a patrol route an enemy evaluated in
\* PATROL keeps its state and its patrol node
C31_PatrolWithoutRoute ==
    [][\A k \in 1..Len(gameState.enemies) :
          /\ Live(gameState)
          /\ IsTick
          /\ gameState.mapMeta.patrolRoutes = 0 \/ gameState.mapMeta.routeLength = 0
          /\ gameState.enemies[k].state = "PATROL"
          /\ k <= Len(gameState'.ev.sight)
          /\ ~gameState'.ev.sight[k].hasLOS
          /\ k <= Len(gameState'.enemies)
          /\ gameState'.enemies[k].id = gameState.enemies[k].id
          => /\ gameState'.enemies[k].state = "PATROL"
             /\ gameState'.enemies[k].patrolNodeIndex
                    = gameState.enemies[k].patrolNodeIndex
             /\ ~gameState'.ev.thrown]_vars

\* ... and without pickup nodes no intermission offers a pickup
C31_NoPickupNodes ==
    gameState.mapMeta.pickupNodes = 0
        => /\ gameState.activePickups = <<>>
           /\ gameState.ev.offered = <<>>

C31_PartsWitness ==
    /\ gameState.mapMeta.pickupNodes = 0
    /\ gameState.phase = "INTERMISSION"
    /\ gameState.ev.enterIntermission > 0

(***************************************************************************)
(* C32: in every reachable state the phase is one of the seven phases,     *)
(* combatLive implies phase COMBAT, and gameStarted holds exactly when the *)
(* phase is not IDLE.                                                      *)
(***************************************************************************)
C32_PhaseFlags ==
    /\ gameState.phase \in Phases
    /\ gameState.combatLive => gameState.phase = "COMBAT"
    /\ gameState.gameStarted <=> gameState.phase # "IDLE"

\* the game was lost in live combat in this frame
C32_Witness ==
    /\ gameState.ev.gameOver > 0
    /\ gameState.phase = "IDLE"
    /\ ~gameState.gameStarted
    /\ ~gameState.combatLive

(***************************************************************************)
(* C33: enemies take damage only while combat is live: in a frame in which *)
(* combat is not live when the projectiles are updated, no player          *)
(* projectile hits an enemy, so none loses health or is removed.  Refuted: *)
(* a rifle projectile still in flight when the round is cleared outlives   *)
(* the intermission and hits a droid of the next round in its countdown.   *)
(***************************************************************************)
C33_DamageOnlyLive ==
    [][(IsTick /\ gameState.gameStarted /\ ~Live(AfterPhase(gameState'.ev.delta)))
          => /\ gameState'.ev.struck = <<>>
             /\ gameState'.ev.kills = 0]_vars

C35_CountersConsistent ==
    [][/\ gameState'.gameStarted
            => /\ gameState'.levelConfig.roundsPerArena = 3
               /\ gameState'.roundInFloor >= 1
               /\ gameState'.roundInFloor <= gameState'.levelConfig.roundsPerArena
               /\ gameState'.floor >= 1
               /\ gameState'.round
                    = 3 * (gameState'.floor - 1) + gameState'.roundInFloor
       /\ (gameState'.ev.enterRoundEnd > 0 \/ gameState'.phase = "ROUND_END")
            => gameState'.roundInFloor = 3
       /\ (gameState'.ev.enterIntermission > 0 \/ gameState'.phase = "INTERMISSION")
            => gameState'.roundInFloor \in {1, 2}]_vars

\* the first round of the second floor is the fourth round of the game
C35_Witness ==
    /\ gameState.gameStarted
    /\ gameState.floor = 2
    /\ gameState.roundInFloor = 1
    /\ gameState.round = 4
    /\ gameState.phase = "PREP_COUNTDOWN"

(***************************************************************************)
(* C36: no pickup exists during live combat or after an arena is cleared:  *)
(* the active pickups are empty whenever combat is live or the phase is    *)
(* ROUND_END, ARENA_GATE_OPEN, ARENA_SWAP or IDLE; pickups exist only in   *)
(* INTERMISSION, PREP_COUNTDOWN and the activation delay; and a pickup is  *)
(* collected only by a frame, in phase INTERMISSION or PREP_COUNTDOWN.     *)
(***************************************************************************)
C36_PickupPhases ==
    /\ (gameState.combatLive
            \/ gameState.phase \in {"ROUND_END", "ARENA_GATE_OPEN", "ARENA_SWAP", "IDLE"})
         => gameState.activePickups = <<>>
    /\ gameState.activePickups # <<>>
         => \/ gameState.phase \in {"INTERMISSION", "PREP_COUNTDOWN"}
            \/ gameState.phase = "COMBAT" /\ ~gameState.combatLive
    /\ gameState.ev.collected # <<>>
         => /\ gameState.phase \in {"INTERMISSION", "PREP_COUNTDOWN"}
            /\ gameState.ev.delta > 0

\* a pickup of the intermission is still there in the activation delay
C36_Witness ==
    /\ gameState.phase = "COMBAT"
    /\ ~gameState.combatLive
    /\ gameState.activePickups # <<>>
    /\ gameState.ev.delta > 0

\* a pickup is collected in the countdown of the next round
C36_CollectedInCountdown ==
    /\ gameState.phase = "PREP_COUNTDOWN"
    /\ gameState.ev.collected # <<>>

(***************************************************************************)
(* C37: the safe-room gate is a function of the phase: it is closed        *)
(* (solid) exactly in IDLE and PREP_COUNTDOWN and open (not solid) in      *)
(* COMBAT, INTERMISSION, ROUND_END, ARENA_GATE_OPEN and ARENA_SWAP; isOpen *)
(* is the negation of solid; and only a step that changes the phase        *)
(* changes the gate.                                                       *)
(***************************************************************************)
GateFollowsPhase(g) ==
    /\ g.gate.isOpen = ~g.gate.solid
    /\ g.gate.solid <=> g.phase \in {"IDLE", "PREP_COUNTDOWN"}
    /\ g.gate.isOpen <=> g.phase \in {"COMBAT", "INTERMISSION", "ROUND_END",
                                       "ARENA_GATE_OPEN", "ARENA_SWAP"}

C37_GateFollowsPhase ==
    [][/\ GateFollowsPhase(gameState)
       /\ GateFollowsPhase(gameState')
       /\ gameState'.gate # gameState.gate => gameState'.phase # gameState.phase]_vars

\* the countdown of the second round has closed the gate the first round
\* left open
C37_Witness ==
    /\ gameState.phase = "PREP_COUNTDOWN"
    /\ gameState.round = 2
    /\ gameState.gate.solid
    /\ ~gameState.gate.isOpen
    /\ gameState.ev.delta > 0

(***************************************************************************)
(* C38: in every reachable state the active weapon is unlocked and the     *)
(* rifle is unlocked; while a game is in progress the current ammo is the  *)
(* stored ammo of the active weapon and maxAmmo is its magazine capacity.  *)
(***************************************************************************)
C38_ActiveWeapon ==
    /\ gameState.unlockedWeapons \subseteq WeaponTypes
    /\ gameState.weaponType \in gameState.unlockedWeapons
    /\ "rifle" \in gameState.unlockedWeapons
    /\ gameState.gameStarted
         => /\ gameState.ammo = gameState.weaponAmmo[gameState.weaponType]
            /\ gameState.maxAmmo = weapons[gameState.weaponType].maxAmmo

\* the player has fired the shotgun unlocked in this game
C38_Witness ==
    /\ gameState.gameStarted
    /\ gameState.weaponType = "shotgun"
    /\ gameState.ammo < weapons.shotgun.maxAmmo
    /\ gameState.weaponAmmo.shotgun = gameState.ammo
    /\ gameState.maxAmmo = 8

(***************************************************************************)
(* C39: the simulation is frozen while no game is in progress: while       *)
(* gameStarted is false, an animation frame and the fire, reload and       *)
(* weapon-switch inputs leave phase, phaseTimer, health, ammo, the round   *)
(* and floor counters, the unlocked weapons, the enemies, the projectiles  *)
(* and the pickups unchanged.                                              *)
(***************************************************************************)
\* the simulation state the claim lists
Simulation(g) ==
    [phase |-> g.phase, phaseTimer |-> g.phaseTimer, combatLive |-> g.combatLive,
     health |-> g.health, ammo |-> g.ammo, maxAmmo |-> g.maxAmmo,
     weaponAmmo |-> g.weaponAmmo, weaponType |-> g.weaponType,
     round |-> g.round, roundInFloor |-> g.roundInFloor, floor |-> g.floor,
     unlockedWeapons |-> g.unlockedWeapons, enemies |-> g.enemies,
     bullets |-> g.bullets, enemyBullets |-> g.enemyBullets,
     activePickups |-> g.activePickups, gate |-> g.gate,
     gameStarted |-> g.gameStarted]

\* the step is an animation frame or a fire, reload or weapon-switch input
FrameOrInput == Tick \/ Fire \/ Reload \/ \E w \in WeaponTypes : Switch(w)

\* the stored timestamps are compared as wall-clock times: the frame's delta
\* has passed
C39_FrozenOutsideGame ==
    [][(~gameState.gameStarted /\ FrameOrInput)
          => /\ Simulation(gameState')
                  = Simulation(AdvanceClock(gameState, gameState'.ev.delta))
             /\ gameState'.ev = [NoEvents EXCEPT !.delta = gameState'.ev.delta]
             /\ dom' = dom]_vars

\* a frame has passed between game over and the reset, the droids of the lost
\* round still standing
C39_Witness ==
    /\ ~gameState.gameStarted
    /\ gameState.ev.delta > 0
    /\ gameState.enemies # <<>>
    /\ timers # <<>>

(***************************************************************************)
(* C40: with the frames scheduled fairly, every timed phase is left:       *)
(* PREP_COUNTDOWN leads to the activation delay and on to live combat,     *)
(* INTERMISSION leads to the PREP_COUNTDOWN of the next round, and         *)
(* ROUND_END leads through ARENA_GATE_OPEN and ARENA_SWAP to the           *)
(* PREP_COUNTDOWN of the first round of the next floor.  (The rounds are   *)
(* followed up to MaxRound.)                                               *)
(***************************************************************************)
C40_TimedPhasesEnd ==
    /\ (gameState.phase = "PREP_COUNTDOWN")
            ~> (gameState.phase = "COMBAT" /\ ~gameState.combatLive)
    /\ (gameState.phase = "COMBAT" /\ ~gameState.combatLive) ~> Live(gameState)
    /\ \A r \in 1..(MaxRound - 1) :
            (gameState.phase = "INTERMISSION" /\ gameState.round = r)
                ~> (gameState.phase = "PREP_COUNTDOWN" /\ gameState.round = r + 1)
    /\ \A f \in 1..(MaxRound \div BASE_ROUNDS_PER_ARENA) :
            /\ (gameState.phase = "ROUND_END" /\ gameState.floor = f)
                    ~> (gameState.phase = "ARENA_GATE_OPEN" /\ gameState.floor = f)
            /\ (gameState.phase = "ARENA_GATE_OPEN" /\ gameState.floor = f)
                    ~> (gameState.phase = "ARENA_SWAP" /\ gameState.floor = f)
            /\ (gameState.phase = "ARENA_SWAP" /\ gameState.floor = f)
                    ~> (/\ gameState.phase = "PREP_COUNTDOWN"
                        /\ gameState.floor = f + 1
                        /\ gameState.roundInFloor = 1)

\* the countdown of the second floor has begun, after ROUND_END,
\* ARENA_GATE_OPEN and ARENA_SWAP
C40_Witness ==
    /\ gameState.phase = "PREP_COUNTDOWN"
    /\ gameState.phaseTimer = ROUND_COUNTDOWN_SECONDS
    /\ gameState.floor = 2
    /\ gameState.ev.delta > 0

====
